---- MODULE Spec2Model ----
(***************************************************************************)
(* Gameplay core of shmup_game: the per-frame collision pipeline, the      *)
(* damage / despawn lifecycle, the enemy attack-pattern state machine and  *)
(* the Bullet damage envelope.                                             *)
(*                                                                         *)
(* f32 quantities (health, damage) are carried as integers in hundredths   *)
(* (20.0 is 2000); durations are integer milliseconds.                     *)
(***************************************************************************)
EXTENDS Integers, Sequences, FiniteSets, TLC

\* ------------------------------------------------------------------------
\* Bounds of the exploration
\* ------------------------------------------------------------------------
MaxTicks == 2
MaxEvents == 1

\* ------------------------------------------------------------------------
\* Program constants (hundredths for f32 values)
\* ------------------------------------------------------------------------
PlayerContactDamage == 1000
EnemyContactDamage == 1500
HitScore == 20
DropScore == 5
DropPower == 3
PowerMax == 500
EnemyHealth == 2000
BossHealth == 30000
PlayerBulletLow == 500
PlayerBulletHigh == 2000
EnemyBulletDamage == 500
EnemyBulletMax == 2000
ScoreMultiplier == 150
GrazeMultiplierStep == 1

\* ------------------------------------------------------------------------
\* The world: a fixed universe of entity handles
\* ------------------------------------------------------------------------
NoEntity == "none"
NoHealth == -1

Entities == {"player", "enemy", "boss", "pbullet", "pbullet2", "ebullet", "ebullet2",
             "graze", "graze2", "graze3", "bar", "bossbar", "wall", "pickup",
             "spickup"}

\* The ColliderType component of an entity; "NoCollider" is an entity
\* spawned without the component (UI nodes).
ColliderType(e) ==
    CASE e = "player"  -> "Player"
      [] e \in {"enemy", "boss"} -> "Enemy"
      [] e \in {"pbullet", "pbullet2"} -> "PlayerBullet"
      [] e \in {"ebullet", "ebullet2"} -> "EnemyBullet"
      [] e \in {"graze", "graze2", "graze3"} -> "Graze"
      [] e = "wall"    -> "Wall"
      [] e \in {"pickup", "spickup"} -> "Collectable"
      [] OTHER         -> "NoCollider"

\* f32: the value that no comparison holds of, and the two comparisons the
\* Bullet methods make
NaN == 0 - 1000
FloatGt(a, b) == a # NaN /\ b # NaN /\ a > b
FloatLt(a, b) == a # NaN /\ b # NaN /\ a < b

\* Bullet::new: a damage above the maximum is capped on creation
BulletNew(damage, max_damage) ==
    [damage |-> IF FloatGt(damage, max_damage) THEN max_damage ELSE damage,
     max_damage |-> max_damage]

\* The Bullet component {damage, max_damage}, for the entities that have it
Bullet(e) ==
    CASE e \in {"pbullet", "pbullet2"} -> BulletNew(PlayerBulletLow, PlayerBulletHigh)
      [] e \in {"ebullet", "ebullet2"} -> BulletNew(EnemyBulletDamage, EnemyBulletMax)

IsBullet(e) == e \in {"pbullet", "pbullet2", "ebullet", "ebullet2"}

\* ui::Link(target): the UI entity linked to a game entity
Link(e) ==
    CASE e = "player" -> "bar"
      [] e = "boss"   -> "bossbar"
      [] OTHER        -> NoEntity

\* Order in which a Query iterates the entities
QueryOrder == <<"player", "enemy", "boss", "pbullet", "pbullet2", "ebullet", "ebullet2",
               "graze", "graze2", "graze3", "bar", "bossbar", "wall", "pickup",
               "spickup">>

\* The children of an entity: an enemy bullet carries its grazing sensor
Children(e) ==
    CASE e = "ebullet"  -> {"graze"}
      [] e = "ebullet2" -> {"graze2"}
      [] OTHER          -> {}

\* Every entity but the bare grazing collider is spawned with a Transform
HasTransform(e) == ColliderType(e) # "Graze"

\* The Wall component (the side of the playfield) and the Collectable kind
Wall(e) == IF e = "wall" THEN "Left" ELSE "NoWall"
CollectableKind(e) ==
    CASE e = "pickup"  -> "Power"
      [] e = "spickup" -> "Score"
      [] OTHER         -> "NoCollectable"
IsCollectable(e) == CollectableKind(e) # "NoCollectable"

\* The systems registered in the Update schedule by GameplayPlugin::build
CollisionsSet == {"handle_bullet_col", "handle_player_col",
                  "handle_enemy_col", "handle_collectable_col"}
UpdateStatsSet == {"take_damage", "score_on_enemy_damage", "despawn_entity",
                   "create_collectables_on_despawn", "game_over", "update_ui",
                   "cleanup_collisions"}
Systems == {"handle_collisions"} \cup CollisionsSet \cup UpdateStatsSet

\* CustomSet::UpdateStats.after(CustomSet::Collisions) is the only ordering
\* the registration states: the systems a system has to wait for.
RunsAfter(s) == IF s \in UpdateStatsSet THEN CollisionsSet ELSE {}

\* Raw overlap events (entity1, entity2, SENSOR flag, Started/Stopped) the
\* physics step can report; a run draws its events from one of the pools.
Ev(a, b, sn, st) == [e1 |-> a, e2 |-> b, sensor |-> sn, started |-> st]

\* Each scenario is the Power the player holds, whether the enemy has already
\* been hit by a bullet at that Power, the overlaps that can occur and how
\* many of them beyond MaxEvents
HalfPower == PowerMax \div 2
Scenarios ==
    { [power |-> HalfPower, hit |-> FALSE, extra |-> 0,
       pool  |-> { Ev("pbullet", "enemy", TRUE, TRUE),
                   Ev("player", "enemy", TRUE, TRUE),
                   Ev("player", "enemy", TRUE, FALSE),
                   Ev("bar", "enemy", FALSE, TRUE) }],
      [power |-> PowerMax, hit |-> FALSE, extra |-> 0,
       pool  |-> { Ev("pbullet", "enemy", TRUE, TRUE),
                   Ev("ebullet", "player", TRUE, TRUE),
                   Ev("ebullet", "player", TRUE, FALSE),
                   Ev("player", "enemy", TRUE, TRUE) }],
      [power |-> HalfPower, hit |-> TRUE, extra |-> 0,
       pool  |-> { Ev("player", "enemy", TRUE, TRUE),
                   Ev("pbullet", "enemy", TRUE, TRUE) }],
      [power |-> HalfPower, hit |-> FALSE, extra |-> 0,
       pool  |-> { Ev("pbullet", "wall", TRUE, TRUE),
                   Ev("pbullet", "wall", TRUE, FALSE),
                   Ev("ebullet", "wall", TRUE, FALSE) }],
      [power |-> HalfPower, hit |-> FALSE, extra |-> 0,
       pool  |-> { Ev("enemy", "wall", TRUE, FALSE),
                   Ev("enemy", "wall", TRUE, TRUE),
                   Ev("boss", "wall", FALSE, FALSE) }],
      [power |-> HalfPower, hit |-> FALSE, extra |-> 0,
       pool  |-> { Ev("pickup", "player", TRUE, TRUE),
                   Ev("pickup", "player", TRUE, FALSE),
                   Ev("spickup", "player", TRUE, TRUE),
                   Ev("pickup", "wall", TRUE, TRUE) }] }

\* The player among the grazing sensors of three enemy bullets
GrazeScenarios ==
    { [power |-> HalfPower, hit |-> FALSE, extra |-> 2,
       pool  |-> { Ev("graze", "player", TRUE, TRUE),
                   Ev("graze2", "player", TRUE, TRUE),
                   Ev("graze3", "player", TRUE, TRUE),
                   Ev("graze", "player", TRUE, FALSE) }] }

\* Two player bullets reach an enemy that one of them is enough to kill
VolleyScenarios ==
    { [power |-> HalfPower, hit |-> TRUE, extra |-> 1,
       pool  |-> { Ev("pbullet", "enemy", TRUE, TRUE),
                   Ev("pbullet2", "enemy", TRUE, TRUE) }] }

\* The player touches an enemy while inside the grazing sensor of a bullet
ContactScenarios ==
    { [power |-> HalfPower, hit |-> FALSE, extra |-> 1,
       pool  |-> { Ev("graze", "player", TRUE, TRUE),
                   Ev("player", "enemy", TRUE, TRUE),
                   Ev("player", "enemy", TRUE, FALSE) }] }

VARIABLES
    alive,            \* entity -> it exists in the World
    health,           \* entity -> Health.current (NoHealth: no component)
    marker,           \* entity -> it carries CollisionMarker
    collisions,       \* the Collisions table: entity -> Seq of CollisionData
    pool,             \* the raw events the physics step can report in this run
    collision_events, \* Events<CollisionEvent> not yet read
    damage_ev,        \* Events<TakeDamageEvent>, per reader
    despawn_ev,       \* Events<DespawnEvent>, per reader
    game_over_ev,     \* Events<GameOverEvent> not yet read by game_over
    commands,         \* the Commands buffer of each system, applied at the end of Update
    apply_order,      \* the order in which the schedule applies the buffers
                      \* (<<>> until two buffers are first applied together)
    done,             \* systems that have run in the current frame
    power,            \* Power.current of the player
    score,            \* Score of the player
    graze,            \* Graze of the player
    enemies_killed,   \* EnemiesKilled of the player
    next_state,       \* NextState<GameState> requested
    loot,             \* pickups spawned so far
    pickup_vel,       \* Movement.velocity of each pickup
    panicked,         \* the app has aborted on a panic
    log,              \* what each system did in the current frame
    tick,             \* frames completed
    nevents,          \* raw events delivered so far, less the scenario's extra ones
    delivered         \* the overlap events already reported

tickVars == <<alive, health, marker, collisions, pool, collision_events,
              damage_ev, despawn_ev, game_over_ev, commands, apply_order, done,
              power, score, graze, enemies_killed, next_state, loot, pickup_vel,
              panicked, log, tick, nevents, delivered>>

VARIABLES
    attacks,          \* the Attacks component of one enemy
    attack_log,       \* what the last run of enemy_attack did
    history           \* per pattern: time and bullets since its timers were fresh

attackVars == <<attacks, attack_log, history>>

VARIABLES
    bullet,           \* a Bullet {damage, max_damage}
    bullet_call       \* the last call made on it

bulletVars == <<bullet, bullet_call>>

VARIABLES
    tally,            \* a Score {score, pre_multiplier_score, multiplier}
    tally_call        \* the last call made on it, and the calls so far

scoreVars == <<tally, tally_call>>

VARIABLES
    specials,         \* Specials.remaining of the player
    pressed,          \* Input::just_pressed(KeyCode::X) in the current frame
    special_log,      \* what special_attack did in the current frame
    cleared           \* despawn requests special_attack has sent so far

specialVars == <<specials, pressed, special_log, cleared>>

VARIABLES
    current_level,      \* State<CurrentLevel>
    next_level,         \* NextState<CurrentLevel> (Unset: no transition queued)
    gameplay_state,     \* State<GameplayState>
    next_gameplaystate, \* NextState<GameplayState>
    next_gamestate,     \* NextState<GameState>
    boss,               \* a Boss entity exists
    boss_despawn,       \* the despawn of the Boss is queued in Commands
    kills,              \* EnemiesKilled of the player
    schedule,           \* the schedule of the frame that runs next
    level_log,          \* what advance_level did in the current frame
    level_history       \* the values State<CurrentLevel> has taken

levelVars == <<current_level, next_level, gameplay_state, next_gameplaystate,
               next_gamestate, boss, boss_despawn, kills, schedule, level_log,
               level_history>>

VARIABLES
    power_counter,    \* a Power {current, max}
    power_call        \* the last call made on it

powerVars == <<power_counter, power_call>>

VARIABLES
    player_cd,        \* the PlayerAttackCD resource
    fire_log,         \* what the last run of spawn_player_bullet did
    fire_since        \* time ticked since the last volley of the player

fireVars == <<player_cd, fire_log, fire_since>>

VARIABLES
    bullets,          \* the Bullet entities of the playfield: slot -> ColliderType
    converted         \* the pickups spawned by the last state transition

fieldVars == <<bullets, converted>>

VARIABLES
    session,          \* the play session: level, check_won, player, pending
                      \* GameOverEvents, State<GameplayState>, frames so far
    frame,            \* the current frame: its inputs, the systems that have
                      \* run, the NextState<GameState> writes made
    requested         \* the NextState resources

overVars == <<session, frame, requested>>

VARIABLES
    collectable,      \* one Collectable: its CollectableLifetime, whether it
                      \* exists, the time it has been ticked
    life_log          \* what the last run of manage_lifetimes did

lifeVars == <<collectable, life_log>>

VARIABLES
    objects,          \* the entities with a Movement: their Movement, Transform
                      \* and rapier Velocity
    move_frame,       \* the current frame: Time::delta, the move_object systems
                      \* that have run, the frames so far
    move_log          \* the last run of a move_object system

moveVars == <<objects, move_frame, move_log>>

\* The parts of the program below the collision pipeline
lateVars == <<fireVars, fieldVars, overVars, lifeVars, moveVars>>
earlyVars == <<tickVars, attackVars, bulletVars, scoreVars, specialVars, levelVars, powerVars>>

vars == <<tickVars, attackVars, bulletVars, scoreVars, specialVars, levelVars, powerVars,
          lateVars>>

\* The variables an action of one part of the program leaves alone
Others == <<attackVars, bulletVars, scoreVars, levelVars, powerVars, lateVars>>
NotTick == <<attackVars, bulletVars, scoreVars, specialVars, levelVars, powerVars, lateVars>>
NotAttack == <<tickVars, bulletVars, scoreVars, specialVars, levelVars, powerVars, lateVars>>
NotBullet == <<tickVars, attackVars, scoreVars, specialVars, levelVars, powerVars, lateVars>>
NotScore == <<tickVars, attackVars, bulletVars, specialVars, levelVars, powerVars, lateVars>>
NotLevel == <<tickVars, attackVars, bulletVars, scoreVars, specialVars, powerVars, lateVars>>
NotPower == <<tickVars, attackVars, bulletVars, scoreVars, specialVars, levelVars, lateVars>>
NotLevelField == <<tickVars, attackVars, bulletVars, scoreVars, specialVars, powerVars,
                   fireVars, overVars, lifeVars, moveVars>>
NotFire == <<tickVars, attackVars, bulletVars, scoreVars, specialVars, levelVars,
             powerVars, fieldVars, overVars, lifeVars, moveVars>>
NotOver == <<tickVars, attackVars, bulletVars, scoreVars, specialVars, levelVars,
             powerVars, fireVars, fieldVars, lifeVars, moveVars>>
NotLife == <<tickVars, attackVars, bulletVars, scoreVars, specialVars, levelVars,
             powerVars, fireVars, fieldVars, overVars, moveVars>>
NotMove == <<tickVars, attackVars, bulletVars, scoreVars, specialVars, levelVars,
             powerVars, fireVars, fieldVars, overVars, lifeVars>>

\* ------------------------------------------------------------------------
\* Helpers
\* ------------------------------------------------------------------------
Range(f) == {f[i] : i \in DOMAIN f}

\* Query<&ColliderType>::get(e) succeeds
HasCollider(e) == alive[e] /\ ColliderType(e) # "NoCollider"

CollisionData(ot, oe, sn, st) ==
    [other_type |-> ot, other_entity |-> oe, sensor |-> sn, started |-> st]

\* The record handle_collisions stores for entity e of an event e takes part in
RecordOf(e, ev) ==
    IF ev.e1 = e THEN CollisionData(ColliderType(ev.e2), ev.e2, ev.sensor, ev.started)
    ELSE CollisionData(ColliderType(ev.e1), ev.e1, ev.sensor, ev.started)

TakeDamageEvent(e, ty, d) == [entity |-> e, entity_type |-> ty, damage |-> d]

\* DespawnEvent::new(entity, recursive) and the with_score / with_power builders
DespawnEvent(e, r) == [entity |-> e, recursive |-> r, drop_score |-> 0, drop_power |-> 0]
with_score(ev, n) == [ev EXCEPT !.drop_score = n]
with_power(ev, n) == [ev EXCEPT !.drop_power = n]

\* The systems that issue Commands on existing entities, and the orders in
\* which the end of the schedule can apply their buffers
CommandSystems == {"handle_collisions", "cleanup_collisions", "despawn_entity"}
ApplyOrders ==
    { o \in [1..3 -> CommandSystems] : \A s \in CommandSystems : \E i \in 1..3 : o[i] = s }

EmptyLog == [bullet |-> <<>>, player |-> <<>>, enemy |-> <<>>, collectable |-> <<>>,
             damage |-> <<>>, score |-> <<>>,
             cleaned |-> {},
             carried |-> [e \in Entities |-> 0],   \* records left by earlier frames
             seen    |-> [e \in Entities |-> 0],   \* records its handler has read
             erased  |-> [e \in Entities |-> 0]]   \* records cleanup has removed

\* Nothing is left for the systems of a frame to read: a frame that starts
\* with every queue, the table and the markers empty and no key pressed
\* changes nothing
Quiet ==
    /\ collision_events = <<>>
    /\ game_over_ev = 0
    /\ \A r \in DOMAIN damage_ev : damage_ev[r] = <<>>
    /\ \A r \in DOMAIN despawn_ev : despawn_ev[r] = <<>>
    /\ \A e \in Entities : ~marker[e] /\ collisions[e] = <<>>
    /\ ~pressed

\* A system may run once per frame, after the systems it is ordered after
CanRun(s) ==
    /\ ~panicked
    /\ tick < MaxTicks
    /\ ~(done = {} /\ (next_state # "Playing" \/ Quiet))
    /\ s \notin done
    /\ RunsAfter(s) \subseteq done
Ran(s) == done' = done \cup {s}

\* EventWriter::send: every reader of the event type will see the events
SendAll(queues, evs) == [r \in DOMAIN queues |-> queues[r] \o evs]

\* ------------------------------------------------------------------------
\* player.rs: the counters of the player
\* ------------------------------------------------------------------------
\* f32 values of the score multiplier: a multiplier in [1, 2) is a multiple
\* of 2^-23; 0.01 is a multiple of 2^-30. Results are rounded to the nearest
\* value of 24 significant bits, ties to the even one.
F32One == 2^23
RoundTiesEven(q, u) ==
    LET lo == q \div u
        r == q % u
    IN IF 2 * r > u \/ (2 * r = u /\ lo % 2 = 1) THEN lo + 1 ELSE lo

\* The f32 nearest to h hundredths, h/100 in [1, 2), in units of 2^-23
F32FromHundredths(h) == RoundTiesEven(h * F32One, 100)

\* The f32 nearest to 0.01 (GrazeMultiplierStep hundredths), in units of 2^-30
F32Hundredth == RoundTiesEven(GrazeMultiplierStep * (2^30), 100)

\* The unit of the last place, in units of 2^-23, of a value q * 2^-23
RECURSIVE Ulp(_, _)
Ulp(q, u) == IF q \div u < 2 * F32One THEN u ELSE Ulp(q, 2 * u)

\* pre_multiplier_score as f32 * multiplier, for totals below 2^24
F32Mul(n, m) == LET q == n * m
                    u == Ulp(q, 1)
                IN RoundTiesEven(q, u) * u

\* `as u64`: the fractional part is dropped
F32ToU64(q) == q \div F32One

\* Score::increase_multiplier_by(0.01), for multipliers below 2
IncreaseMultiplier(m) == RoundTiesEven(2^7 * m + F32Hundredth, 2^7)

\* Score::default
ScoreDefault ==
    [score |-> 0, pre_multiplier_score |-> 0,
     multiplier |-> F32FromHundredths(ScoreMultiplier)]

\* Score::add: the total is recomputed from the pre-multiplier total
ScoreAdd(sc, n) ==
    [sc EXCEPT !.pre_multiplier_score = @ + n,
               !.score = F32ToU64(F32Mul(sc.pre_multiplier_score + n, sc.multiplier))]

U16 == 2^16

\* Power::new: a starting value above the maximum is replaced by 0
PowerNew(starting, maximum) ==
    [current |-> IF starting <= maximum THEN starting ELSE 0, max |-> maximum]

\* Counter for Power: set caps the value to the maximum
PowerSet(p, value) ==
    IF value >= p.max THEN [p EXCEPT !.current = p.max]
    ELSE [p EXCEPT !.current = value]

\* Counter for Power: add computes current + power in u16, which panics
\* when overflow checks are compiled in and wraps when they are not
PowerAddOverflows(p, value) == p.current + value >= U16
PowerAdd(p, value) == PowerSet(p, (p.current + value) % U16)

\* Counter for Power: subtract stops at 0
PowerSubtract(p, value) ==
    PowerSet(p, IF p.current <= value THEN 0 ELSE p.current - value)

\* Graze::add
GrazeAddNothing(g, value) == g
GrazeAdd(g, value) == g + value

\* EnemiesKilled::increment
Increment(k) == [total |-> k.total + 1, current_level |-> k.current_level + 1]

\* ------------------------------------------------------------------------
\* collisions.rs: handle_collisions
\* ------------------------------------------------------------------------
RECURSIVE Ingest(_, _)
Ingest(evs, acc) ==
    IF evs = <<>> THEN acc
    ELSE LET ev == Head(evs) IN
         IF ~HasCollider(ev.e1) \/ ~HasCollider(ev.e2)
         THEN Ingest(Tail(evs), acc)
         ELSE LET d1 == CollisionData(ColliderType(ev.e2), ev.e2, ev.sensor, ev.started)
                  d2 == CollisionData(ColliderType(ev.e1), ev.e1, ev.sensor, ev.started)
                  t1 == [acc.table EXCEPT ![ev.e1] = Append(@, d1)]
                  t2 == [t1 EXCEPT ![ev.e2] = Append(@, d2)]
              IN Ingest(Tail(evs),
                        [table |-> t2,
                         cmds  |-> acc.cmds \o << [op |-> "insert_marker", entity |-> ev.e1],
                                                  [op |-> "insert_marker", entity |-> ev.e2] >>])

handle_collisions ==
    /\ CanRun("handle_collisions")
    /\ LET r == Ingest(collision_events, [table |-> collisions, cmds |-> <<>>]) IN
        /\ collisions' = r.table
        /\ commands' = [commands EXCEPT !["handle_collisions"] = @ \o r.cmds]
    /\ collision_events' = <<>>
    /\ Ran("handle_collisions")
    /\ UNCHANGED <<alive, health, marker, pool, damage_ev, despawn_ev, game_over_ev,
                   apply_order, power, score, graze, enemies_killed, next_state,
                   loot, pickup_vel, panicked, log, tick, nevents, delivered>>
    /\ UNCHANGED NotTick

\* ------------------------------------------------------------------------
\* collisions.rs: cleanup_collisions
\* ------------------------------------------------------------------------
\* Query<Entity, With<CollisionMarker>>
Collided == {e \in Entities : alive[e] /\ marker[e]}

\* The records a handler reads: those of the marked entities of its category
Seen(lg, category) ==
    [lg EXCEPT !.seen = [e \in Entities |->
                           IF e \in category /\ e \in Collided
                           THEN Len(collisions[e]) ELSE @[e]]]

RECURSIVE RemoveMarkers(_, _)
RemoveMarkers(i, cmds) ==
    IF i > Len(QueryOrder) THEN cmds
    ELSE IF QueryOrder[i] \in Collided
         THEN RemoveMarkers(i + 1, Append(cmds, [op |-> "remove_marker", entity |-> QueryOrder[i]]))
         ELSE RemoveMarkers(i + 1, cmds)

cleanup_collisions ==
    /\ CanRun("cleanup_collisions")
    /\ collisions' = [e \in Entities |-> IF e \in Collided THEN <<>> ELSE collisions[e]]
    /\ commands' = [commands EXCEPT !["cleanup_collisions"] = RemoveMarkers(1, @)]
    /\ log' = [log EXCEPT !.cleaned = Collided,
                          !.erased = [e \in Entities |->
                                        IF e \in Collided THEN Len(collisions[e]) ELSE 0]]
    /\ Ran("cleanup_collisions")
    /\ UNCHANGED <<alive, health, marker, pool, collision_events, damage_ev, despawn_ev,
                   game_over_ev, apply_order, power, score, graze, enemies_killed,
                   next_state, loot, pickup_vel, panicked, tick, nevents, delivered>>
    /\ UNCHANGED NotTick

\* ------------------------------------------------------------------------
\* collisions.rs: handle_bullet_col
\* ------------------------------------------------------------------------
NoType == "NoType"

\* lower_damage + input * (upper_damage - lower_damage) / upper_power
ScaledDamageFromZero(lower_damage, upper_damage, input, upper_power) ==
    (input * upper_damage) \div upper_power
ScaledDamage(lower_damage, upper_damage, input, upper_power) ==
    lower_damage + (input * (upper_damage - lower_damage)) \div upper_power

\* A bullet that has left a wall: a recursive despawn, no drops
WallDespawnPlain(entity) == << DespawnEvent(entity, FALSE) >>
WallDespawn(entity) == << DespawnEvent(entity, TRUE) >>

\* A bullet that has hit the player or an enemy: a recursive despawn, no drops
HitDespawnPlain(entity) == << DespawnEvent(entity, FALSE) >>
HitDespawn(entity) == << DespawnEvent(entity, TRUE) >>

\* What one CollisionData of a bullet emits: damage events, despawn events
BulletCollision(entity, collision) ==
    LET scaled == ColliderType(entity) = "PlayerBullet" /\ collision.started
        damage_dealt ==
            IF scaled
            THEN ScaledDamage(Bullet(entity).damage, Bullet(entity).max_damage, power, PowerMax)
            ELSE Bullet(entity).damage
        nothing == [dmg |-> <<>>, desp |-> <<>>]
    IN IF scaled /\ ~alive["player"] THEN nothing
       ELSE IF collision.other_type \in {"Player", "Enemy"}
       THEN IF ~collision.started THEN nothing
            ELSE [dmg  |-> << TakeDamageEvent(collision.other_entity,
                                              collision.other_type, damage_dealt) >>,
                  desp |-> HitDespawn(entity)]
       ELSE IF collision.other_type = "Wall"
       THEN IF collision.started THEN nothing
            ELSE [dmg |-> <<>>, desp |-> WallDespawn(entity)]
       ELSE nothing

RECURSIVE BulletCollisions(_, _, _)
BulletCollisions(entity, recs, acc) ==
    IF recs = <<>> THEN acc
    ELSE LET out == BulletCollision(entity, Head(recs)) IN
         BulletCollisions(entity, Tail(recs),
            [dmg  |-> acc.dmg \o out.dmg,
             desp |-> acc.desp \o out.desp,
             log  |-> Append(acc.log, [bullet |-> entity, collision |-> Head(recs),
                                       power |-> power, dmg |-> out.dmg,
                                       desp |-> out.desp])])

RECURSIVE Bullets(_, _)
Bullets(i, acc) ==
    IF i > Len(QueryOrder) THEN acc
    ELSE LET entity == QueryOrder[i] IN
         IF IsBullet(entity) /\ entity \in Collided
         THEN Bullets(i + 1, BulletCollisions(entity, collisions[entity], acc))
         ELSE Bullets(i + 1, acc)

handle_bullet_col ==
    /\ CanRun("handle_bullet_col")
    /\ LET r == Bullets(1, [dmg |-> <<>>, desp |-> <<>>, log |-> <<>>]) IN
        /\ damage_ev' = SendAll(damage_ev, r.dmg)
        /\ despawn_ev' = SendAll(despawn_ev, r.desp)
        /\ log' = Seen([log EXCEPT !.bullet = r.log], {e \in Entities : IsBullet(e)})
    /\ Ran("handle_bullet_col")
    /\ UNCHANGED <<alive, health, marker, collisions, pool, collision_events,
                   game_over_ev, commands, apply_order, power, score, graze,
                   enemies_killed, next_state, loot, pickup_vel, panicked, tick,
                   nevents, delivered>>
    /\ UNCHANGED NotTick

\* ------------------------------------------------------------------------
\* collisions.rs: handle_player_col
\* ------------------------------------------------------------------------
RECURSIVE PlayerCollisions(_, _)
PlayerCollisions(recs, acc) ==
    IF recs = <<>> THEN acc
    ELSE LET c == Head(recs)
             a1 == IF c.other_type = "Enemy" /\ c.started
                   THEN [acc EXCEPT !.dmg = Append(@, TakeDamageEvent("player", "Player",
                                                                     PlayerContactDamage))]
                   ELSE acc
             a2 == IF c.other_type = "Graze" /\ c.started
                   THEN [a1 EXCEPT !.graze = GrazeAdd(@, 1),
                                   !.multiplier = IncreaseMultiplier(@)]
                   ELSE a1
             a3 == [a2 EXCEPT !.log = Append(@, [collision |-> c,
                                                 dmg |-> SubSeq(a1.dmg, Len(acc.dmg) + 1,
                                                                Len(a1.dmg)),
                                                 graze_before |-> acc.graze,
                                                 graze_after |-> a2.graze,
                                                 multiplier_before |-> acc.multiplier,
                                                 multiplier_after |-> a2.multiplier])]
         IN PlayerCollisions(Tail(recs), a3)

handle_player_col ==
    /\ CanRun("handle_player_col")
    /\ LET recs == IF "player" \in Collided THEN collisions["player"] ELSE <<>>
           r == PlayerCollisions(recs, [dmg |-> <<>>, graze |-> graze,
                                        multiplier |-> score.multiplier, log |-> <<>>])
       IN /\ damage_ev' = SendAll(damage_ev, r.dmg)
          /\ graze' = r.graze
          /\ score' = [score EXCEPT !.multiplier = r.multiplier]
          /\ log' = Seen([log EXCEPT !.player = r.log], {"player"})
    /\ Ran("handle_player_col")
    /\ UNCHANGED <<alive, health, marker, collisions, pool, collision_events,
                   despawn_ev, game_over_ev, commands, apply_order, power,
                   enemies_killed, next_state, loot, pickup_vel, panicked, tick,
                   nevents, delivered>>
    /\ UNCHANGED NotTick

\* ------------------------------------------------------------------------
\* collisions.rs: handle_enemy_col
\* ------------------------------------------------------------------------
\* The Enemy component: the rank-and-file enemy and the boss
IsEnemy(e) == e \in {"enemy", "boss"}

\* The record of an enemy whose sensor has stopped overlapping a Wall
LeftWallAnyFlags(c) == c.other_type = "Wall" /\ ~c.started
LeftWall(c) == c.sensor /\ c.other_type = "Wall" /\ ~c.started

RECURSIVE EnemyCollisions(_, _, _)
EnemyCollisions(enemy, recs, acc) ==
    IF recs = <<>> THEN acc
    ELSE LET c == Head(recs)
             a1 == IF c.other_type = "Player" /\ c.started
                   THEN [acc EXCEPT !.dmg = Append(@, TakeDamageEvent(enemy, NoType,
                                                                     EnemyContactDamage))]
                   ELSE acc
             a2 == IF LeftWall(c)
                   THEN [a1 EXCEPT !.desp = Append(@, DespawnEvent(enemy, FALSE))]
                   ELSE a1
             a3 == [a2 EXCEPT !.log = Append(@,
                       [enemy |-> enemy, collision |-> c,
                        dmg  |-> SubSeq(a2.dmg, Len(acc.dmg) + 1, Len(a2.dmg)),
                        desp |-> SubSeq(a2.desp, Len(acc.desp) + 1, Len(a2.desp))])]
         IN EnemyCollisions(enemy, Tail(recs), a3)

RECURSIVE Enemies(_, _)
Enemies(i, acc) ==
    IF i > Len(QueryOrder) THEN acc
    ELSE LET enemy == QueryOrder[i] IN
         IF IsEnemy(enemy) /\ enemy \in Collided
         THEN Enemies(i + 1, EnemyCollisions(enemy, collisions[enemy], acc))
         ELSE Enemies(i + 1, acc)

handle_enemy_col ==
    /\ CanRun("handle_enemy_col")
    /\ LET r == Enemies(1, [dmg |-> <<>>, desp |-> <<>>, log |-> <<>>]) IN
        /\ damage_ev' = SendAll(damage_ev, r.dmg)
        /\ despawn_ev' = SendAll(despawn_ev, r.desp)
        /\ log' = Seen([log EXCEPT !.enemy = r.log], {e \in Entities : IsEnemy(e)})
    /\ Ran("handle_enemy_col")
    /\ UNCHANGED <<alive, health, marker, collisions, pool, collision_events,
                   game_over_ev, commands, apply_order, power, score, graze,
                   enemies_killed, next_state, loot, pickup_vel, panicked, tick,
                   nevents, delivered>>
    /\ UNCHANGED NotTick

\* ------------------------------------------------------------------------
\* collisions.rs: handle_collectable_col
\* ------------------------------------------------------------------------
PickupScore == 50
PickupPower == 1
\* rand::gen_range(-0.5..0.5), in hundredths
RandomValues == {-50, 0, 49}

TruncDiv(a, b) == IF (a >= 0) = (b > 0) THEN a \div b ELSE -((-a) \div b)

\* A pickup taken by the player: 50 score or 1 Power, by its kind
PickedUpAsScore(acc, kind) == [acc EXCEPT !.score = ScoreAdd(@, PickupScore)]
PickedUp(acc, kind) ==
    IF kind = "Score"
    THEN [acc EXCEPT !.score = ScoreAdd(@, PickupScore)]
    ELSE [acc EXCEPT !.power = PowerAdd(PowerNew(@, PowerMax), PickupPower).current]

\* The entry of the log for one record of a collectable
Collected(entity, acc, c, after) ==
    [after EXCEPT !.log = Append(@,
        [entity |-> entity, collision |-> c,
         score_before |-> acc.score, score_after |-> after.score,
         power_before |-> acc.power, power_after |-> after.power,
         vel_before |-> acc.vel, vel_after |-> after.vel,
         desp |-> SubSeq(after.desp, Len(acc.desp) + 1, Len(after.desp))])]

RECURSIVE CollectableCollisions(_, _, _, _)
CollectableCollisions(entity, recs, rs, acc) ==
    IF recs = <<>> \/ acc.panicked THEN acc
    ELSE LET c == Head(recs) IN
         IF ~c.started
         THEN CollectableCollisions(entity, Tail(recs), rs, Collected(entity, acc, c, acc))
         ELSE IF c.other_type = "Player"
         THEN LET a1 == IF ~alive["player"] THEN acc
                        ELSE PickedUp(acc, CollectableKind(entity))
              IN CollectableCollisions(entity, Tail(recs), rs,
                    Collected(entity, acc, c,
                       [a1 EXCEPT !.desp = Append(@, DespawnEvent(entity, FALSE))]))
         ELSE IF c.other_type = "Wall"
         THEN IF ~(alive[c.other_entity] /\ Wall(c.other_entity) # "NoWall")
              THEN [acc EXCEPT !.panicked = TRUE]
              ELSE LET random_value == Head(rs)
                       v == acc.vel[entity]
                       bounced ==
                           IF Wall(c.other_entity) \in {"Left", "Right"}
                           THEN [x |-> TruncDiv(-v.x * 100, 200 + random_value),
                                 y |-> v.y + random_value]
                           ELSE [x |-> v.x + random_value,
                                 y |-> TruncDiv(-v.y * 100, 250 + random_value)]
                   IN CollectableCollisions(entity, Tail(recs), Tail(rs),
                         Collected(entity, acc, c, [acc EXCEPT !.vel[entity] = bounced]))
         ELSE CollectableCollisions(entity, Tail(recs), rs, Collected(entity, acc, c, acc))

\* The records of a collectable that draw a random value
WallBounces(recs) ==
    {i \in 1..Len(recs) : recs[i].started /\ recs[i].other_type = "Wall"}

\* The marked collectables in query order, each with its share of the
\* random values drawn in the run
RECURSIVE Collectables(_, _, _)
Collectables(i, rs, acc) ==
    IF i > Len(QueryOrder) \/ acc.panicked THEN acc
    ELSE LET entity == QueryOrder[i] IN
         IF IsCollectable(entity) /\ entity \in Collided
         THEN LET k == Cardinality(WallBounces(collisions[entity]))
              IN Collectables(i + 1, SubSeq(rs, k + 1, Len(rs)),
                    CollectableCollisions(entity, collisions[entity],
                                          SubSeq(rs, 1, k), acc))
         ELSE Collectables(i + 1, rs, acc)

handle_collectable_col ==
    /\ CanRun("handle_collectable_col")
    /\ LET draws == UNION { {<<e, i>> : i \in WallBounces(collisions[e])} :
                             e \in {x \in Collided : IsCollectable(x)} }
       IN \E rs \in [1..Cardinality(draws) -> RandomValues] :
            LET r == Collectables(1, rs,
                        [score |-> score, power |-> power, vel |-> pickup_vel,
                         desp |-> <<>>, panicked |-> FALSE, log |-> <<>>])
            IN /\ score' = r.score
               /\ power' = r.power
               /\ pickup_vel' = r.vel
               /\ panicked' = r.panicked
               /\ despawn_ev' = SendAll(despawn_ev, r.desp)
               /\ log' = Seen([log EXCEPT !.collectable = r.log],
                               {e \in Entities : IsCollectable(e)})
    /\ Ran("handle_collectable_col")
    /\ UNCHANGED <<alive, health, marker, collisions, pool, collision_events,
                   damage_ev, game_over_ev, commands, apply_order, graze,
                   enemies_killed, next_state, loot, tick, nevents, delivered>>
    /\ UNCHANGED NotTick

\* ------------------------------------------------------------------------
\* event.rs: take_damage
\* ------------------------------------------------------------------------
\* hp.current > event.damage: the target survives the hit
SurvivesAtZero(current, damage) == current >= damage
Survives(current, damage) == current > damage

\* The category for which a lethal hit counts as a kill
KillCountedAlsoPlayer(entity_type) == entity_type \in {"Enemy", "Player"}
KillCountedNotPlayer(entity_type) == entity_type # "Player"
KillCounted(entity_type) == entity_type = "Enemy"

\* The despawn requests of a lethal hit: the linked health bar first
\* (recursive), then the target itself (not recursive) with its drops
LethalDespawnsNoBar(entity) ==
    << with_power(with_score(DespawnEvent(entity, FALSE), DropScore), DropPower) >>
LethalDespawns(entity) ==
    (IF Link(entity) # NoEntity THEN << DespawnEvent(Link(entity), TRUE) >> ELSE <<>>)
    \o << with_power(with_score(DespawnEvent(entity, FALSE), DropScore), DropPower) >>

\* One TakeDamageEvent against the accumulated health / counters / queues
DamageStep(event, acc) ==
    IF ~(alive[event.entity] /\ acc.health[event.entity] # NoHealth) THEN acc
    ELSE IF Survives(acc.health[event.entity], event.damage)
    THEN [acc EXCEPT !.health[event.entity] = @ - event.damage]
    ELSE [acc EXCEPT
            !.desp = @ \o LethalDespawns(event.entity),
            !.game_over = IF event.entity_type = "Player" THEN @ + 1 ELSE @,
            !.killed = IF KillCounted(event.entity_type) /\ alive["player"]
                       THEN Increment(@) ELSE @]

RECURSIVE DamageEvents(_, _)
DamageEvents(evs, acc) ==
    IF evs = <<>> THEN acc
    ELSE LET event == Head(evs)
             before == acc.st
             after == DamageStep(event, before)
             entry == [event |-> event,
                       found |-> alive[event.entity] /\ before.health[event.entity] # NoHealth,
                       hp_before |-> before.health[event.entity],
                       hp_after |-> after.health[event.entity],
                       game_over |-> after.game_over - before.game_over,
                       killed_before |-> before.killed,
                       killed_after |-> after.killed,
                       desp |-> SubSeq(after.desp, Len(before.desp) + 1, Len(after.desp))]
         IN DamageEvents(Tail(evs), [st |-> after, log |-> Append(acc.log, entry)])

take_damage ==
    /\ CanRun("take_damage")
    /\ LET r == DamageEvents(damage_ev["take_damage"],
                   [st |-> [health |-> health, desp |-> <<>>, game_over |-> 0,
                            killed |-> enemies_killed],
                    log |-> <<>>])
       IN /\ health' = r.st.health
          /\ enemies_killed' = r.st.killed
          /\ game_over_ev' = game_over_ev + r.st.game_over
          /\ despawn_ev' = SendAll(despawn_ev, r.st.desp)
          /\ log' = [log EXCEPT !.damage = r.log]
    /\ damage_ev' = [damage_ev EXCEPT !["take_damage"] = <<>>]
    /\ Ran("take_damage")
    /\ UNCHANGED <<alive, marker, collisions, pool, collision_events, commands,
                   apply_order, power, score, graze, next_state, loot, pickup_vel,
                   panicked, tick, nevents, delivered>>
    /\ UNCHANGED NotTick

\* ------------------------------------------------------------------------
\* event.rs: score_on_enemy_damage
\* ------------------------------------------------------------------------
\* One TakeDamageEvent seen by the observer
ScoreStepAnyCategory(event, sc) ==
    IF event.entity_type # NoType /\ alive["player"] THEN ScoreAdd(sc, HitScore) ELSE sc
ScoreStep(event, sc) ==
    IF event.entity_type = "Enemy" /\ alive["player"] THEN ScoreAdd(sc, HitScore) ELSE sc

RECURSIVE ScoreEvents(_, _)
ScoreEvents(evs, acc) ==
    IF evs = <<>> THEN acc
    ELSE LET event == Head(evs)
             after == ScoreStep(event, acc.score)
         IN ScoreEvents(Tail(evs),
               [score |-> after,
                log |-> Append(acc.log, [event |-> event, before |-> acc.score,
                                         after |-> after])])

score_on_enemy_damage ==
    /\ CanRun("score_on_enemy_damage")
    /\ LET r == ScoreEvents(damage_ev["score_on_enemy_damage"],
                            [score |-> score, log |-> <<>>])
       IN /\ score' = r.score
          /\ log' = [log EXCEPT !.score = r.log]
    /\ damage_ev' = [damage_ev EXCEPT !["score_on_enemy_damage"] = <<>>]
    /\ Ran("score_on_enemy_damage")
    /\ UNCHANGED <<alive, health, marker, collisions, pool, collision_events,
                   despawn_ev, game_over_ev, commands, apply_order, power, graze,
                   enemies_killed, next_state, loot, pickup_vel, panicked, tick,
                   nevents, delivered>>
    /\ UNCHANGED NotTick

\* ------------------------------------------------------------------------
\* event.rs: despawn_entity
\* ------------------------------------------------------------------------
RECURSIVE DespawnCommands(_, _)
DespawnCommands(evs, cmds) ==
    IF evs = <<>> THEN cmds
    ELSE LET event == Head(evs) IN
         IF ~alive[event.entity] THEN DespawnCommands(Tail(evs), cmds)
         ELSE DespawnCommands(Tail(evs),
                 Append(cmds, [op |-> IF event.recursive THEN "despawn_recursive"
                                      ELSE "despawn",
                               entity |-> event.entity]))

despawn_entity ==
    /\ CanRun("despawn_entity")
    /\ commands' = [commands EXCEPT !["despawn_entity"] =
                        DespawnCommands(despawn_ev["despawn_entity"], @)]
    /\ despawn_ev' = [despawn_ev EXCEPT !["despawn_entity"] = <<>>]
    /\ Ran("despawn_entity")
    /\ UNCHANGED <<alive, health, marker, collisions, pool, collision_events,
                   damage_ev, game_over_ev, apply_order, power, score, graze,
                   enemies_killed, next_state, loot, pickup_vel, panicked, log, tick,
                   nevents, delivered>>
    /\ UNCHANGED NotTick

\* ------------------------------------------------------------------------
\* event.rs: create_collectables_on_despawn (the spawn commands cannot fail,
\* the pickups are counted as they are requested)
\* ------------------------------------------------------------------------
RECURSIVE SpawnCollectables(_, _)
SpawnCollectables(evs, acc) ==
    IF evs = <<>> THEN acc
    ELSE LET event == Head(evs) IN
         IF ~(alive[event.entity] /\ HasTransform(event.entity))
         THEN SpawnCollectables(Tail(evs), acc)
         ELSE SpawnCollectables(Tail(evs),
                 [score |-> acc.score + event.drop_score,
                  power |-> acc.power + event.drop_power])

create_collectables_on_despawn ==
    /\ CanRun("create_collectables_on_despawn")
    /\ loot' = SpawnCollectables(despawn_ev["create_collectables_on_despawn"], loot)
    /\ despawn_ev' = [despawn_ev EXCEPT !["create_collectables_on_despawn"] = <<>>]
    /\ Ran("create_collectables_on_despawn")
    /\ UNCHANGED <<alive, health, marker, collisions, pool, collision_events,
                   damage_ev, game_over_ev, commands, apply_order, power, score,
                   graze, enemies_killed, next_state, pickup_vel, panicked, log, tick,
                   nevents, delivered>>
    /\ UNCHANGED NotTick

\* ------------------------------------------------------------------------
\* event.rs: game_over (reads one event, the rest stay queued)
\* ------------------------------------------------------------------------
game_over ==
    /\ CanRun("game_over")
    /\ IF game_over_ev > 0
       THEN /\ next_state' = "GameOver"
            /\ game_over_ev' = game_over_ev - 1
       ELSE UNCHANGED <<next_state, game_over_ev>>
    /\ Ran("game_over")
    /\ UNCHANGED <<alive, health, marker, collisions, pool, collision_events,
                   damage_ev, despawn_ev, commands, apply_order, power, score, graze,
                   enemies_killed, loot, pickup_vel, panicked, log, tick, nevents, delivered>>
    /\ UNCHANGED NotTick

\* ------------------------------------------------------------------------
\* ui.rs: update_health_bar / update_counter_ui, the seven registrations;
\* they write the Text and Style of UI nodes only
\* ------------------------------------------------------------------------
update_ui ==
    /\ CanRun("update_ui")
    /\ Ran("update_ui")
    /\ UNCHANGED <<alive, health, marker, collisions, pool, collision_events,
                   damage_ev, despawn_ev, game_over_ev, commands, apply_order, power,
                   score, graze, enemies_killed, next_state, loot, pickup_vel,
                   panicked, log, tick, nevents, delivered>>
    /\ UNCHANGED NotTick

\* ------------------------------------------------------------------------
\* The end of the Update schedule: the Commands buffers are applied, then
\* the physics step reports the overlaps the next frame will read
\* ------------------------------------------------------------------------
DespawnedNothing(w, es) == w
Despawned(w, es) ==
    [w EXCEPT !.alive = [e \in Entities |-> IF e \in es THEN FALSE ELSE @[e]],
              !.marker = [e \in Entities |-> IF e \in es THEN FALSE ELSE @[e]],
              !.health = [e \in Entities |-> IF e \in es THEN NoHealth ELSE @[e]]]

\* Inserting a component on an entity that no longer exists panics;
\* removing from it or despawning it again does not
ApplyCommand(w, c) ==
    IF w.panicked THEN w
    ELSE IF c.op = "insert_marker"
    THEN IF w.alive[c.entity] THEN [w EXCEPT !.marker[c.entity] = TRUE]
         ELSE [w EXCEPT !.panicked = TRUE]
    ELSE IF c.op = "remove_marker"
    THEN IF w.alive[c.entity] THEN [w EXCEPT !.marker[c.entity] = FALSE] ELSE w
    ELSE IF c.op = "despawn_recursive"
    THEN Despawned(w, {c.entity} \cup Children(c.entity))
    ELSE Despawned(w, {c.entity})

RECURSIVE ApplyBuffer(_, _)
ApplyBuffer(w, cmds) ==
    IF cmds = <<>> THEN w ELSE ApplyBuffer(ApplyCommand(w, Head(cmds)), Tail(cmds))

ApplyDeferred(w, order) ==
    ApplyBuffer(ApplyBuffer(ApplyBuffer(w, commands[order[1]]), commands[order[2]]),
                commands[order[3]])

\* The order of the buffers is a property of the built schedule: it is the
\* same in every frame, and it is observed once two buffers are non-empty
OrderObserved == Cardinality({s \in CommandSystems : commands[s] # <<>>}) >= 2

\* The sequences of at most n different elements of S
SeqsUpTo(S, n) ==
    {q \in UNION {[1..k -> S] : k \in 0..n} :
        \A i \in DOMAIN q, j \in DOMAIN q : q[i] = q[j] => i = j}

\* A begin-event is only reported between entities that exist
PhysicsCanReport(evs, al) ==
    \A i \in 1..Len(evs) : evs[i].started => al[evs[i].e1] /\ al[evs[i].e2]

EndFrameTick ==
    /\ ~panicked
    /\ done = Systems
    /\ \E order \in ApplyOrders :
         /\ apply_order # <<>> => order = apply_order
         /\ apply_order' = IF OrderObserved THEN order ELSE apply_order
         /\ LET w == ApplyDeferred([alive |-> alive, marker |-> marker,
                                    health |-> health, panicked |-> FALSE], order)
            IN /\ alive' = w.alive
               /\ marker' = w.marker
               /\ health' = w.health
               /\ panicked' = w.panicked
    /\ commands' = [s \in CommandSystems |-> <<>>]
    /\ done' = {}
    /\ log' = [EmptyLog EXCEPT !.carried = [e \in Entities |-> Len(collisions[e])]]
    /\ tick' = tick + 1
    /\ \E evs \in SeqsUpTo(pool \ delivered, MaxEvents - nevents) :
          /\ PhysicsCanReport(evs, alive')
          /\ collision_events' = collision_events \o evs
          /\ nevents' = nevents + Len(evs)
          /\ delivered' = delivered \cup Range(evs)
    /\ UNCHANGED <<collisions, pool, damage_ev, despawn_ev, game_over_ev, power,
                   score, graze, enemies_killed, next_state, loot, pickup_vel>>

EndFrame ==
    /\ EndFrameTick
    /\ UNCHANGED NotTick

\* ------------------------------------------------------------------------
\* bevy Timer in TimerMode::Once, as enemy_attack uses it (milliseconds)
\* ------------------------------------------------------------------------
Timer(d) == [elapsed |-> 0, duration |-> d, finished |-> FALSE]

\* icd: None
NoTimer == [elapsed |-> 0, duration |-> -1, finished |-> FALSE]

\* Timer::tick: a finished Once timer stays as it is; the elapsed time is
\* clamped to the duration when the timer finishes
TimerTick(t, delta) ==
    IF t.finished THEN t
    ELSE IF t.elapsed + delta >= t.duration
    THEN [t EXCEPT !.elapsed = t.duration, !.finished = TRUE]
    ELSE [t EXCEPT !.elapsed = t.elapsed + delta]

\* Timer::reset
TimerReset(t) == [t EXCEPT !.elapsed = 0, !.finished = FALSE]

\* ------------------------------------------------------------------------
\* bullet.rs: AttackPattern, BulletGroup::spawn_single / spawn_all
\* ------------------------------------------------------------------------
MaxClock == 700
Deltas == {50, 100, 150}
SwitchMs == 400
NeverFired == -1

\* AttackPattern::new: the bullet group's number, the two cooldowns, cursor 0
AttackPattern(number, cd, icd) ==
    [number |-> number, cd |-> cd, icd |-> icd, current_bullet |-> 0]

\* Attacks::new
Attacks(patterns, switch_timer) ==
    [attacks |-> patterns, current_attack |-> 0, switch_timer |-> switch_timer]

\* BulletGroup::spawn_all: the indices 0 .. number-1, in order
spawn_all(number) == [i \in 1..number |-> i - 1]

\* BulletGroup::spawn_single
spawn_single(i) == << i >>

\* ------------------------------------------------------------------------
\* enemy.rs: enemy_attack, for one enemy
\* ------------------------------------------------------------------------
\* state.is_changed(): the timers and the cursor of the current attack, the
\* switch timer and the attack index are reset
ResetAttack(attack) ==
    [attack EXCEPT !.cd = TimerReset(@),
                   !.icd = IF @ = NoTimer THEN @ ELSE TimerReset(@),
                   !.current_bullet = 0]

\* current_bullet >= number: wait for the cooldown, then start over
BetweenVolleysNoWait(attack) ==
    [attack EXCEPT !.current_bullet = 0, !.cd = TimerReset(@)]
BetweenVolleys(attack) ==
    IF attack.cd.finished
    THEN [attack EXCEPT !.current_bullet = 0, !.cd = TimerReset(@)]
    ELSE attack

\* The switch timer has finished: the next attack, circularly
NextAttackNoWrap(current, attacks_number) == current + 1
NextAttack(current, attacks_number) ==
    IF current < attacks_number - 1 THEN current + 1 ELSE 0

\* With an ICD: one bullet at the cursor, then the cursor moves on
FireSingle(attack) ==
    [attack  |-> IF attack.icd.finished
                 THEN [attack EXCEPT !.current_bullet = @ + 1, !.icd = TimerReset(@)]
                 ELSE attack,
     spawned |-> spawn_single(attack.current_bullet)]

\* Without an ICD: the whole group, then the cooldown restarts
FireGroupNoReset(attack) ==
    [attack  |-> attack,
     spawned |-> spawn_all(attack.number)]
FireGroup(attack) ==
    [attack  |-> [attack EXCEPT !.cd = TimerReset(@)],
     spawned |-> spawn_all(attack.number)]

\* One run of the loop body: the new component and what was spawned
EnemyAttack(a, delta, state_changed) ==
    LET attacks_number == Len(a.attacks)
        n == a.current_attack + 1
        reset == IF state_changed THEN ResetAttack(a.attacks[n]) ELSE a.attacks[n]
        switch0 == IF state_changed THEN TimerReset(a.switch_timer) ELSE a.switch_timer
        current0 == IF state_changed THEN 0 ELSE a.current_attack
        ticked == [reset EXCEPT !.cd = TimerTick(@, delta)]
        out(attack, current, switch, spawned, idle) ==
            [attacks |-> [attacks |-> [a.attacks EXCEPT ![n] = attack],
                          current_attack |-> current,
                          switch_timer |-> switch],
             log |-> [pattern |-> n, spawned |-> spawned, idle |-> idle,
                      cd_finished |-> ticked.cd.finished, gap |-> NeverFired,
                      state_changed |-> state_changed, delta |-> delta]]
    IN IF ticked.current_bullet >= ticked.number
       THEN out(BetweenVolleys(ticked), current0, switch0, <<>>, TRUE)
       ELSE LET attack == [ticked EXCEPT !.icd = IF @ = NoTimer THEN @
                                                 ELSE TimerTick(@, delta)]
                switch1 == TimerTick(switch0, delta)
                current1 == IF switch1.finished
                            THEN NextAttack(current0, attacks_number) ELSE current0
                switch2 == IF switch1.finished THEN TimerReset(switch1) ELSE switch1
                timer == IF attack.icd = NoTimer THEN attack.cd ELSE attack.icd
            IN IF ~timer.finished
               THEN out(attack, current1, switch2, <<>>, FALSE)
               ELSE LET f == IF attack.icd = NoTimer THEN FireGroup(attack)
                             ELSE FireSingle(attack)
                    IN out(f.attack, current1, switch2, f.spawned, FALSE)

\* The bookkeeping of the run for the pattern that was ticked: the time it
\* has been ticked and the bullets it has spawned since its timers were fresh
Capped(t) == IF t > MaxClock THEN MaxClock ELSE t

Fresh == [clock |-> 0, volley |-> <<>>, since_fire |-> NeverFired]

RECURSIVE Stamped(_, _)
Stamped(spawned, at) ==
    IF spawned = <<>> THEN <<>>
    ELSE << [index |-> Head(spawned), at |-> at] >> \o Stamped(Tail(spawned), at)

\* The time since the pattern's last volley, this run included
SinceFire(h, delta) ==
    IF h.since_fire = NeverFired THEN NeverFired ELSE Capped(h.since_fire + delta)

\* clock and volley are kept for a pattern with an ICD (time ticked and
\* bullets spawned since its timers were fresh), since_fire for one without
Recorded(h, before, after, lg, delta, state_changed) ==
    IF after.icd = NoTimer
    THEN [h EXCEPT !.since_fire = IF lg.spawned # <<>> THEN 0 ELSE SinceFire(h, delta)]
    ELSE IF lg.idle /\ after.current_bullet < before.current_bullet
    THEN Fresh
    ELSE LET clock == Capped((IF state_changed THEN 0 ELSE h.clock) + delta)
         IN [h EXCEPT !.clock = clock,
                      !.volley = (IF state_changed THEN <<>> ELSE @)
                                 \o Stamped(lg.spawned, clock)]

enemy_attack ==
    /\ \E delta \in Deltas, state_changed \in BOOLEAN :
         LET r == EnemyAttack(attacks, delta, state_changed)
             n == r.log.pattern
         IN /\ attacks' = r.attacks
            /\ attack_log' = [r.log EXCEPT !.gap = SinceFire(history[n], delta)]
            /\ history' = [history EXCEPT ![n] =
                              Recorded(@, attacks.attacks[n], r.attacks.attacks[n],
                                       r.log, delta, state_changed)]
    /\ UNCHANGED NotAttack

\* The enemies explored: a group fired at once, a group fired bullet by
\* bullet every 100 ms, and an enemy that alternates between two attacks
AttackConfigs ==
    { Attacks(<< AttackPattern(3, Timer(200), NoTimer) >>, Timer(SwitchMs)),
      Attacks(<< AttackPattern(5, Timer(600), Timer(100)) >>, Timer(SwitchMs)),
      Attacks(<< AttackPattern(2, Timer(200), NoTimer),
                 AttackPattern(2, Timer(300), Timer(100)) >>, Timer(SwitchMs)) }

AttackInit ==
    /\ attacks \in AttackConfigs
    /\ attack_log = [pattern |-> 1, spawned |-> <<>>, idle |-> FALSE,
                     cd_finished |-> FALSE, gap |-> NeverFired,
                     state_changed |-> FALSE, delta |-> 0]
    /\ history = [p \in 1..Len(attacks.attacks) |-> Fresh]

AttackIdle ==
    /\ attacks = Attacks(<< AttackPattern(1, Timer(200), NoTimer) >>, Timer(SwitchMs))
    /\ attack_log = [pattern |-> 1, spawned |-> <<>>, idle |-> FALSE,
                     cd_finished |-> FALSE, gap |-> NeverFired,
                     state_changed |-> FALSE, delta |-> 0]
    /\ history = << Fresh >>

\* ------------------------------------------------------------------------
\* bullet.rs: impl Bullet (ordered f32 values, NaN aside)
\* ------------------------------------------------------------------------
MaxDamage == 3
DamageValues == ((0 - 1)..MaxDamage) \cup {NaN}

\* Bullet::set_damage
SetDamage(b, damage) ==
    IF FloatGt(damage, b.max_damage) THEN [b EXCEPT !.damage = b.max_damage]
    ELSE [b EXCEPT !.damage = damage]

\* Bullet::set_max
SetMaxNoCap(b, max_damage) == [b EXCEPT !.max_damage = max_damage]
SetMax(b, max_damage) ==
    IF FloatLt(max_damage, b.damage)
    THEN [damage |-> max_damage, max_damage |-> max_damage]
    ELSE [b EXCEPT !.max_damage = max_damage]

\* Bullet::set
Set(b, damage, max_damage) == SetDamage(SetMax(b, max_damage), damage)

Called(op, d, m) == [op |-> op, damage |-> d, max_damage |-> m, before |-> bullet]

set_damage ==
    /\ \E d \in DamageValues :
         /\ bullet' = SetDamage(bullet, d)
         /\ bullet_call' = Called("set_damage", d, bullet.max_damage)
    /\ UNCHANGED NotBullet

set_max ==
    /\ \E m \in DamageValues :
         /\ bullet' = SetMax(bullet, m)
         /\ bullet_call' = Called("set_max", bullet.damage, m)
    /\ UNCHANGED NotBullet

set ==
    /\ \E d \in DamageValues, m \in DamageValues :
         /\ bullet' = Set(bullet, d, m)
         /\ bullet_call' = Called("set", d, m)
    /\ UNCHANGED NotBullet

BulletInit ==
    \E d \in DamageValues, m \in DamageValues :
        /\ bullet = BulletNew(d, m)
        /\ bullet_call = [op |-> "new", damage |-> d, max_damage |-> m,
                          before |-> BulletNew(d, m)]

BulletIdle ==
    /\ bullet = BulletNew(1, 1)
    /\ bullet_call = [op |-> "new", damage |-> 1, max_damage |-> 1,
                      before |-> BulletNew(1, 1)]

\* ------------------------------------------------------------------------
\* player.rs: a Score under add and increase_multiplier_by(0.01) calls
\* ------------------------------------------------------------------------
MaxTotal == 100
MaxIncreases == 10
Amounts == {1, 10, 20, 50}

\* floor(P * multiplier) for the multiplier the Score holds, and for the
\* multiplier 1.5 + 0.01 k after k increases
FloorOfStored(P, multiplier) == (P * multiplier) \div F32One
FloorOfDecimal(P, increases) == (P * (ScoreMultiplier + increases)) \div 100

score_add ==
    /\ \E n \in Amounts :
         /\ tally.pre_multiplier_score + n <= MaxTotal
         /\ tally' = ScoreAdd(tally, n)
         /\ tally_call' =
               [tally_call EXCEPT
                  !.op = "add", !.n = n, !.before = tally, !.added = @ + n,
                  !.stored = @ /\ tally'.score =
                                   FloorOfStored(tally_call.added + n, tally.multiplier),
                  !.decimal = @ /\ tally'.score =
                                   FloorOfDecimal(tally_call.added + n, tally_call.increases)]
    /\ UNCHANGED NotScore

score_increase_multiplier ==
    /\ tally_call.increases < MaxIncreases
    /\ tally' = [tally EXCEPT !.multiplier = IncreaseMultiplier(@)]
    /\ tally_call' = [tally_call EXCEPT !.op = "increase_multiplier_by", !.n = 0,
                                        !.before = tally, !.increases = @ + 1]
    /\ UNCHANGED NotScore

ScoreInit ==
    /\ tally = ScoreDefault
    /\ tally_call = [op |-> "default", n |-> 0, before |-> ScoreDefault,
                     added |-> 0, increases |-> 0, stored |-> TRUE, decimal |-> TRUE]

ScoreIdle == ScoreInit

\* ------------------------------------------------------------------------
\* player.rs: special_attack, run in a frame in which X was just pressed
\* ------------------------------------------------------------------------
SpecialsStart == 5
BurstNumber == 35
SpecialDropScore == 1

\* Counter for Specials: subtract (u8; the caller has checked get() > 0)
SpecialsSubtract(remaining, number) == remaining - number

\* Query<(Entity, &ColliderType), With<Bullet>>: the bullets that get a
\* despawn request, in the order of the query
SpecialTargetsAnyBullet(live) ==
    SelectSeq(QueryOrder, LAMBDA e : e \in live /\ IsBullet(e))
SpecialTargets(live) ==
    SelectSeq(QueryOrder, LAMBDA e : e \in live /\ IsBullet(e)
                                     /\ ColliderType(e) = "EnemyBullet")

\* One run of special_attack: the charges left, the despawn requests sent
\* and the bullets of the group spawned
SpecialAttack(player_found, remaining, live) ==
    IF ~player_found \/ remaining = 0
    THEN [specials |-> remaining, despawn |-> <<>>, spawned |-> <<>>]
    ELSE [specials |-> SpecialsSubtract(remaining, 1),
          despawn  |-> [i \in DOMAIN SpecialTargets(live) |->
                          with_score(DespawnEvent(SpecialTargets(live)[i], TRUE),
                                     SpecialDropScore)],
          spawned  |-> spawn_all(BurstNumber)]

special_attack ==
    /\ ~panicked
    /\ tick < MaxTicks
    /\ next_state = "Playing"
    /\ pressed
    /\ special_log = <<>>
    /\ LET live == {e \in Entities : alive[e]}
           r == SpecialAttack(alive["player"], specials, live)
       IN /\ specials' = r.specials
          /\ despawn_ev' = SendAll(despawn_ev, r.despawn)
          /\ cleared' = cleared + Len(r.despawn)
          /\ special_log' = << [before |-> specials, after |-> r.specials,
                                player |-> alive["player"], live |-> live,
                                despawn |-> r.despawn, spawned |-> r.spawned,
                                score_before |-> score] >>
    /\ UNCHANGED pressed
    /\ UNCHANGED <<alive, health, marker, collisions, pool, collision_events,
                   damage_ev, game_over_ev, commands, apply_order, done, power,
                   score, graze, enemies_killed, next_state, loot, pickup_vel,
                   panicked, log, tick, nevents, delivered>>
    /\ UNCHANGED Others

\* The end of a frame of the session with the key: the run condition of
\* special_attack has been evaluated, and the key may be pressed again
SpecialEndFrame ==
    /\ pressed => special_log # <<>>
    /\ EndFrameTick
    /\ pressed' \in BOOLEAN
    /\ special_log' = <<>>
    /\ UNCHANGED <<specials, cleared>>
    /\ UNCHANGED Others

\* ------------------------------------------------------------------------
\* levels/mod.rs: the level of a play session, frame after frame: the
\* StateTransition schedule, then the Update schedule
\* ------------------------------------------------------------------------
WinKills == 15
MaxKills == 16
Unset == "Unset"

\* check_won: no Boss entity, and a player whose current-level tally is 15
CheckWonBossIgnored(bosses, tallies) ==
    \E i \in DOMAIN tallies : tallies[i].current_level >= WinKills
CheckWon(bosses, tallies) ==
    /\ bosses = 0
    /\ \E i \in DOMAIN tallies : tallies[i].current_level >= WinKills

\* advance_level: the NextState resources after the match on the level
AdvanceLevelSkipping(level, nx) ==
    CASE level = "One"   -> [nx EXCEPT !.next_level = "Three"]
      [] level = "Two"   -> [nx EXCEPT !.next_level = "Three"]
      [] level = "Three" -> [next_level |-> "None", next_gameplaystate |-> "None",
                             next_gamestate |-> "GameWon"]
      [] OTHER           -> nx
AdvanceLevel(level, nx) ==
    CASE level = "One"   -> [nx EXCEPT !.next_level = "Two"]
      [] level = "Two"   -> [nx EXCEPT !.next_level = "Three"]
      [] level = "Three" -> [next_level |-> "None", next_gameplaystate |-> "None",
                             next_gamestate |-> "GameWon"]
      [] OTHER           -> nx

\* EnemiesKilled::reset_current
ResetCurrentAndTotal(k) == [k EXCEPT !.current_level = 0, !.total = 0]
ResetCurrent(k) == [k EXCEPT !.current_level = 0]

\* The bullets that can be on the playfield, and where each one is
Slots == 1..2
NoBullet == "None"
BulletPosition(b) == [x |-> 100 * b, y |-> 50]

\* spawn_collectable_around adds a random amount in -20.0 ..= 20.0 to each
\* coordinate of the target
Offsets == { [x |-> -20, y |-> 20], [x |-> 0, y |-> 0], [x |-> 20, y |-> -7] }

\* spawn_collectables: n_score Score pickups, then n_power Power pickups,
\* around the target
spawn_collectables(n_score, n_power, target, off) ==
    [i \in 1..(n_score + n_power) |->
        [kind |-> IF i <= n_score THEN "Score" ELSE "Power",
         pos  |-> [x |-> target.x + off.x, y |-> target.y + off.y]]]

\* convert_leftover_bullets: every Bullet whose ColliderType is EnemyBullet
\* is despawned (recursively) and one Score pickup is spawned around it
LeftoverAnyBullet(kind) == kind # NoBullet
Leftover(kind) == kind = "EnemyBullet"

RECURSIVE LeftoverPickups(_, _, _)
LeftoverPickups(b, bs, offs) ==
    IF b \notin Slots THEN <<>>
    ELSE (IF Leftover(bs[b])
          THEN spawn_collectables(1, 0, BulletPosition(b), offs[b]) ELSE <<>>)
         \o LeftoverPickups(b + 1, bs, offs)

convert_leftover_bullets(st, offs) ==
    [st EXCEPT !.bullets = [b \in Slots |-> IF Leftover(@[b]) THEN NoBullet ELSE @[b]],
               !.converted = @ \o LeftoverPickups(1, st.bullets, offs)]

\* apply_state_transition::<GameplayState>: leaving Playing runs
\* OnExit(Playing), where remove_level queues CurrentLevel::None and the
\* enemies and the bullets are despawned
ApplyGameplayState(st) ==
    IF st.next_gameplaystate = Unset THEN st
    ELSE IF st.next_gameplaystate = st.gameplay_state
    THEN [st EXCEPT !.next_gameplaystate = Unset]
    ELSE [st EXCEPT !.gameplay_state = st.next_gameplaystate,
                    !.next_gameplaystate = Unset,
                    !.next_level = IF st.gameplay_state = "Playing" THEN "None" ELSE @,
                    !.boss = IF st.gameplay_state = "Playing" THEN FALSE ELSE @,
                    !.bullets = IF st.gameplay_state = "Playing"
                                THEN [b \in Slots |-> NoBullet] ELSE @]

\* apply_state_transition::<CurrentLevel>: leaving One or Two runs
\* convert_leftover_bullets; entering One, Two or Three runs spawn_boss and
\* reset_enemies_killed
ApplyCurrentLevel(st0, offs) ==
    IF st0.next_level = Unset THEN st0
    ELSE IF st0.next_level = st0.current_level
    THEN [st0 EXCEPT !.next_level = Unset]
    ELSE LET entered == st0.next_level
             level == entered \in {"One", "Two", "Three"}
             st == IF st0.current_level \in {"One", "Two"}
                   THEN convert_leftover_bullets(st0, offs) ELSE st0
         IN [st EXCEPT !.current_level = entered,
                       !.next_level = Unset,
                       !.level_history = Append(@, entered),
                       !.boss = IF level THEN TRUE ELSE @,
                       !.kills = IF level THEN ResetCurrent(@) ELSE @]

\* The StateTransition schedule: the two states are applied in either order
state_transition ==
    /\ schedule = "StateTransition"
    /\ next_level # Unset \/ next_gameplaystate # Unset \/ gameplay_state = "Playing"
    /\ LET st == [current_level |-> current_level, next_level |-> next_level,
                  gameplay_state |-> gameplay_state,
                  next_gameplaystate |-> next_gameplaystate,
                  boss |-> boss, kills |-> kills, level_history |-> level_history,
                  bullets |-> bullets, converted |-> <<>>]
       IN \E offs \in [Slots -> Offsets] :
          \E after \in {ApplyCurrentLevel(ApplyGameplayState(st), offs),
                         ApplyGameplayState(ApplyCurrentLevel(st, offs))} :
            /\ current_level' = after.current_level
            /\ next_level' = after.next_level
            /\ gameplay_state' = after.gameplay_state
            /\ next_gameplaystate' = after.next_gameplaystate
            /\ boss' = after.boss
            /\ kills' = after.kills
            /\ level_history' = after.level_history
            /\ bullets' = after.bullets
            /\ converted' = after.converted
    /\ schedule' = "Update"
    /\ UNCHANGED <<next_gamestate, boss_despawn, level_log>>
    /\ UNCHANGED NotLevelField

\* A system of the Update schedule under run_if(in_state(Playing))
Playing ==
    /\ schedule = "Update"
    /\ gameplay_state = "Playing"

\* enemy_attack or spawn_player_bullet puts a bullet on the playfield, or a
\* bullet leaves it
bullet_spawned ==
    /\ Playing
    /\ current_level \in {"One", "Two", "Three"}
    /\ \E b \in Slots, kind \in {NoBullet, "EnemyBullet", "PlayerBullet"} :
         /\ (bullets[b] = NoBullet) # (kind = NoBullet)
         /\ bullets' = [bullets EXCEPT ![b] = kind]
    /\ UNCHANGED <<converted, current_level, next_level, gameplay_state,
                   next_gameplaystate, next_gamestate, boss, boss_despawn, kills,
                   schedule, level_log, level_history>>
    /\ UNCHANGED NotLevelField

\* take_damage on an enemy of the level other than the boss: a kill
enemy_killed ==
    /\ Playing
    /\ current_level \in {"One", "Two", "Three"}
    /\ kills.current_level < MaxKills
    /\ kills' = Increment(kills)
    /\ UNCHANGED <<current_level, next_level, gameplay_state, next_gameplaystate,
                   next_gamestate, boss, boss_despawn, schedule, level_log,
                   level_history>>
    /\ UNCHANGED NotLevel

\* take_damage on the boss: a kill, and its despawn is queued
boss_killed ==
    /\ Playing
    /\ boss /\ ~boss_despawn
    /\ kills.current_level < MaxKills
    /\ kills' = Increment(kills)
    /\ boss_despawn' = TRUE
    /\ UNCHANGED <<current_level, next_level, gameplay_state, next_gameplaystate,
                   next_gamestate, boss, schedule, level_log, level_history>>
    /\ UNCHANGED NotLevel

\* game_over on a GameOverEvent, or back_to_menu on Escape
leave_playing ==
    /\ Playing
    /\ next_gameplaystate' = "None"
    /\ next_gamestate' \in {"GameOver", "Menu"}
    /\ UNCHANGED <<current_level, next_level, gameplay_state, boss, boss_despawn,
                   kills, schedule, level_log, level_history>>
    /\ UNCHANGED NotLevel

\* advance_level.run_if(check_won)
advance_level ==
    /\ Playing
    /\ level_log = <<>>
    /\ CheckWon(IF boss THEN 1 ELSE 0, << kills >>)
    /\ LET nx == AdvanceLevel(current_level,
                              [next_level |-> next_level,
                               next_gameplaystate |-> next_gameplaystate,
                               next_gamestate |-> next_gamestate])
       IN /\ next_level' = nx.next_level
          /\ next_gameplaystate' = nx.next_gameplaystate
          /\ next_gamestate' = nx.next_gamestate
          /\ level_log' = << [level |-> current_level, boss |-> boss, kills |-> kills,
                              next |-> nx] >>
    /\ UNCHANGED <<current_level, gameplay_state, boss, boss_despawn, kills,
                   schedule, level_history>>
    /\ UNCHANGED NotLevel

\* The end of the Update schedule: the Commands are applied
end_update ==
    /\ schedule = "Update"
    /\ schedule' = "StateTransition"
    /\ boss' = (boss /\ ~boss_despawn)
    /\ boss_despawn' = FALSE
    /\ level_log' = <<>>
    /\ UNCHANGED <<current_level, next_level, gameplay_state, next_gameplaystate,
                   next_gamestate, kills, level_history>>
    /\ UNCHANGED NotLevel

\* After OnEnter(GameplayState::Playing): setup_levels has queued level One,
\* spawn_player has spawned the player; CurrentLevel is applied in the same
\* StateTransition run or in the next
LevelInit ==
    /\ current_level = "None"
    /\ next_level = "One"
    /\ gameplay_state = "Playing"
    /\ next_gameplaystate = Unset
    /\ next_gamestate = Unset
    /\ boss = FALSE
    /\ boss_despawn = FALSE
    /\ kills = [total |-> 0, current_level |-> 0]
    /\ schedule \in {"StateTransition", "Update"}
    /\ level_log = <<>>
    /\ level_history = << "None" >>

LevelIdle ==
    /\ current_level = "None"
    /\ next_level = Unset
    /\ gameplay_state = "Playing"
    /\ next_gameplaystate = Unset
    /\ next_gamestate = Unset
    /\ boss = FALSE
    /\ boss_despawn = FALSE
    /\ kills = [total |-> 0, current_level |-> 0]
    /\ schedule = "Update"
    /\ level_log = <<>>
    /\ level_history = << "None" >>

\* ------------------------------------------------------------------------
\* player.rs: a Power under any sequence of calls
\* ------------------------------------------------------------------------
MaxStep == 2

\* The amounts of a call: small ones, and the largest a u16 holds
PowerAmounts == (0..MaxStep) \cup {PowerMax} \cup ((U16 - 1 - MaxStep)..(U16 - 1))
PowerMaxima == {0, MaxStep, PowerMax}

PowerCall(op, value, before, panic) ==
    [op |-> op, value |-> value, before |-> before, panicked |-> panic]

power_set ==
    /\ ~power_call.panicked
    /\ \E value \in PowerAmounts :
         /\ power_counter' = PowerSet(power_counter, value)
         /\ power_call' = PowerCall("set", value, power_counter, FALSE)
    /\ UNCHANGED NotPower

power_add ==
    /\ ~power_call.panicked
    /\ \E value \in PowerAmounts :
         \/ /\ power_counter' = PowerAdd(power_counter, value)
            /\ power_call' = PowerCall("add", value, power_counter, FALSE)
         \/ /\ PowerAddOverflows(power_counter, value)
            /\ power_counter' = power_counter
            /\ power_call' = PowerCall("add", value, power_counter, TRUE)
    /\ UNCHANGED NotPower

power_subtract ==
    /\ ~power_call.panicked
    /\ \E value \in PowerAmounts :
         /\ power_counter' = PowerSubtract(power_counter, value)
         /\ power_call' = PowerCall("subtract", value, power_counter, FALSE)
    /\ UNCHANGED NotPower

PowerInit ==
    \E starting \in PowerAmounts, maximum \in PowerMaxima :
        /\ power_counter = PowerNew(starting, maximum)
        /\ power_call = PowerCall("new", starting, PowerNew(starting, maximum), FALSE)

PowerIdle ==
    /\ power_counter = PowerNew(0, PowerMax)
    /\ power_call = PowerCall("new", 0, PowerNew(0, PowerMax), FALSE)

SpecialIdle ==
    /\ specials = SpecialsStart
    /\ pressed = FALSE
    /\ special_log = <<>>
    /\ cleared = 0

\* ------------------------------------------------------------------------
\* The play session: a damaged player (10 of 30 health), one enemy at full
\* health or already hit once, one bullet of each side, one pickup
\* ------------------------------------------------------------------------
PlayerHealth == 3000
PickupVelocityY == -700

TickInitFrom(scenarios) ==
    /\ alive = [e \in Entities |-> TRUE]
    /\ marker = [e \in Entities |-> FALSE]
    /\ collisions = [e \in Entities |-> <<>>]
    /\ \E sc \in scenarios :
          /\ pool = sc.pool
          /\ power = sc.power
          /\ collision_events \in SeqsUpTo(pool, MaxEvents + sc.extra)
          /\ nevents = Len(collision_events) - sc.extra
          /\ delivered = Range(collision_events)
          /\ health = [e \in Entities |->
                         IF e = "player" THEN PlayerHealth - 2 * PlayerContactDamage
                         ELSE IF e = "enemy"
                         THEN IF sc.hit
                              THEN EnemyHealth - ScaledDamage(PlayerBulletLow,
                                                   PlayerBulletHigh, sc.power, PowerMax)
                              ELSE EnemyHealth
                         ELSE IF e = "boss" THEN BossHealth
                         ELSE NoHealth]
    /\ damage_ev = [r \in {"take_damage", "score_on_enemy_damage"} |-> <<>>]
    /\ despawn_ev = [r \in {"despawn_entity", "create_collectables_on_despawn"} |-> <<>>]
    /\ game_over_ev = 0
    /\ commands = [s \in CommandSystems |-> <<>>]
    /\ apply_order = <<>>
    /\ done = {}
    /\ score = ScoreDefault
    /\ graze = 0
    /\ enemies_killed = [total |-> 0, current_level |-> 0]
    /\ next_state = "Playing"
    /\ loot = [score |-> 0, power |-> 0]
    /\ pickup_vel = [e \in {"pickup", "spickup"} |-> [x |-> 0, y |-> PickupVelocityY]]
    /\ panicked = FALSE
    /\ log = EmptyLog
    /\ tick = 0

\* The variables of the play session while another part is explored
\* No overlap to report, nothing queued; the counters as the player is spawned
TickAtRest ==
    /\ health = [e \in Entities |-> NoHealth]
    /\ marker = [e \in Entities |-> FALSE]
    /\ collisions = [e \in Entities |-> <<>>]
    /\ pool = {}
    /\ collision_events = <<>>
    /\ nevents = 0
    /\ delivered = {}
    /\ damage_ev = [r \in {"take_damage", "score_on_enemy_damage"} |-> <<>>]
    /\ despawn_ev = [r \in {"despawn_entity", "create_collectables_on_despawn"} |-> <<>>]
    /\ game_over_ev = 0
    /\ commands = [s \in CommandSystems |-> <<>>]
    /\ apply_order = <<>>
    /\ done = {}
    /\ power = 0
    /\ score = ScoreDefault
    /\ graze = 0
    /\ enemies_killed = [total |-> 0, current_level |-> 0]
    /\ next_state = "Playing"
    /\ loot = [score |-> 0, power |-> 0]
    /\ pickup_vel = [e \in {"pickup", "spickup"} |-> [x |-> 0, y |-> PickupVelocityY]]
    /\ panicked = FALSE
    /\ log = EmptyLog
    /\ tick = 0

TickInit == TickInitFrom(Scenarios)

\* The session of VolleyScenarios one frame on: the overlap of the first
\* player bullet with the enemy has been ingested and both are marked, the
\* overlap of the second bullet is reported now or a frame later
FirstHit == Ev("pbullet", "enemy", TRUE, TRUE)
SecondHit == Ev("pbullet2", "enemy", TRUE, TRUE)
AfterFirstHit ==
    /\ alive = [e \in Entities |-> TRUE]
    /\ marker = [e \in Entities |-> e \in {"pbullet", "enemy"}]
    /\ collisions = [e \in Entities |->
                       IF e \in {"pbullet", "enemy"}
                       THEN << RecordOf(e, FirstHit) >> ELSE <<>>]
    /\ pool = {FirstHit, SecondHit}
    /\ power = HalfPower
    /\ collision_events \in {<<>>, << SecondHit >>}
    /\ nevents = Len(collision_events)
    /\ delivered = {FirstHit} \cup Range(collision_events)
    /\ health = [e \in Entities |->
                   IF e = "player" THEN PlayerHealth - 2 * PlayerContactDamage
                   ELSE IF e = "enemy"
                   THEN EnemyHealth - ScaledDamage(PlayerBulletLow, PlayerBulletHigh,
                                                   HalfPower, PowerMax)
                   ELSE IF e = "boss" THEN BossHealth
                   ELSE NoHealth]
    /\ damage_ev = [r \in {"take_damage", "score_on_enemy_damage"} |-> <<>>]
    /\ despawn_ev = [r \in {"despawn_entity", "create_collectables_on_despawn"} |-> <<>>]
    /\ game_over_ev = 0
    /\ commands = [s \in CommandSystems |-> <<>>]
    /\ apply_order = <<>>
    /\ done = {}
    /\ score = ScoreDefault
    /\ graze = 0
    /\ enemies_killed = [total |-> 0, current_level |-> 0]
    /\ next_state = "Playing"
    /\ loot = [score |-> 0, power |-> 0]
    /\ pickup_vel = [e \in {"pickup", "spickup"} |-> [x |-> 0, y |-> PickupVelocityY]]
    /\ panicked = FALSE
    /\ log = [EmptyLog EXCEPT !.carried = [e \in Entities |-> Len(collisions[e])]]

\* tick counts the frames from this state on
StaleInit ==
    /\ AfterFirstHit
    /\ tick = 0

TickIdle ==
    /\ alive = [e \in Entities |-> TRUE]
    /\ TickAtRest

\* The player with any number of charges left, and any of the bullets alive
\* (an enemy bullet together with its grazing sensor)
SpecialInit ==
    /\ specials \in 0..SpecialsStart
    /\ pressed \in BOOLEAN
    /\ special_log = <<>>
    /\ cleared = 0
    /\ \E live \in SUBSET {"player", "pbullet", "ebullet", "ebullet2"} :
          alive = [e \in Entities |->
                     IF \E b \in Entities : e \in Children(b)
                     THEN \A b \in Entities : e \in Children(b) => b \in live
                     ELSE e \in {"player", "pbullet", "ebullet", "ebullet2"} => e \in live]
    /\ TickAtRest

\* ------------------------------------------------------------------------
\* player.rs: PlayerAttackCD, spawn_player_bullet
\* ------------------------------------------------------------------------
PlayerAttackMs == 200

\* PlayerAttackCD::default
PlayerAttackCD == Timer(PlayerAttackMs)

\* The Movement.velocity of the three bullets of a volley
PlayerVolley ==
    << [x |-> 0, y |-> 500], [x |-> -500, y |-> 400], [x |-> 500, y |-> 400] >>

\* The run goes past its three early returns
FiresUnheld(cd, z, player) == cd.finished /\ player
Fires(cd, z, player) == cd.finished /\ z /\ player

\* One run: z is Input::pressed(KeyCode::Z), player is whether the single
\* Player entity exists
spawn_player_bullet ==
    /\ \E delta \in Deltas, z \in BOOLEAN, player \in BOOLEAN :
         LET ticked == TimerTick(player_cd, delta)
             fires == Fires(ticked, z, player)
             since == IF fire_since = NeverFired THEN NeverFired
                      ELSE Capped(fire_since + delta)
         IN /\ player_cd' = IF fires THEN TimerReset(ticked) ELSE ticked
            /\ fire_since' = IF fires THEN 0 ELSE since
            /\ fire_log' = [delta |-> delta, pressed |-> z, player |-> player,
                            finished |-> ticked.finished, gap |-> since,
                            spawned |-> IF fires THEN PlayerVolley ELSE <<>>]
    /\ UNCHANGED NotFire

FireInit ==
    /\ player_cd = PlayerAttackCD
    /\ fire_since = NeverFired
    /\ fire_log = [delta |-> 0, pressed |-> FALSE, player |-> TRUE,
                   finished |-> FALSE, gap |-> NeverFired, spawned |-> <<>>]

FireIdle == FireInit

\* ------------------------------------------------------------------------
\* event.rs: game_over; gameplay/mod.rs: back_to_menu; levels/mod.rs:
\* advance_level. The three systems that write NextState<GameState>, in the
\* frames of one play session
\* ------------------------------------------------------------------------
MaxFrames == 3
MaxLethal == 2

OverSystems == {"take_damage", "game_over", "advance_level", "back_to_menu"}

\* (OverSystems \X OverSystems) restricted to the orderings of the schedule:
\* game_over and take_damage are both in UpdateStats, advance_level and
\* back_to_menu are in no set, and no system is ordered with another
OverRunsAfter == {}

\* game_over: if the reader yields an event, both states are requested; the
\* reader has then consumed that one event
GameOverKeepsPlaying(pending, nx) ==
    IF pending > 0
    THEN [pending |-> pending - 1, nx |-> [nx EXCEPT !.next_gamestate = "GameOver"]]
    ELSE [pending |-> pending, nx |-> nx]
GameOver(pending, nx) ==
    IF pending > 0
    THEN [pending |-> pending - 1,
          nx |-> [nx EXCEPT !.next_gameplaystate = "None",
                            !.next_gamestate = "GameOver"]]
    ELSE [pending |-> pending, nx |-> nx]

\* back_to_menu: Escape is pressed
BackToMenu(escape, nx) ==
    IF escape
    THEN [nx EXCEPT !.next_gamestate = "Menu", !.next_gameplaystate = "None"]
    ELSE nx

OverCanRun(s) ==
    /\ session.gameplay_state = "Playing"
    /\ s \notin frame.ran
    /\ \A p \in OverSystems : <<p, s>> \in OverRunsAfter => p \in frame.ran

\* The frame after a system has run, with the write to NextState<GameState>
\* it has made, if any
OverRan(s, nx, wrote) ==
    [frame EXCEPT !.ran = @ \cup {s},
                  !.writes = IF wrote
                             THEN Append(@, [system |-> s, game |-> nx.next_gamestate,
                                             gameplay |-> nx.next_gameplaystate])
                             ELSE @]

\* take_damage handles the hits of the frame: a GameOverEvent for every
\* lethal hit on the player, and the kill that completes the level
take_damage_run ==
    /\ OverCanRun("take_damage")
    /\ session' = [session EXCEPT !.pending = @ + frame.lethal,
                                  !.won = @ \/ frame.last_kill,
                                  !.doomed = @ \/ frame.lethal > 0]
    /\ frame' = OverRan("take_damage", requested, FALSE)
    /\ UNCHANGED requested
    /\ UNCHANGED NotOver

game_over_run ==
    /\ OverCanRun("game_over")
    /\ LET r == GameOver(session.pending, requested)
       IN /\ session' = [session EXCEPT !.pending = r.pending]
          /\ requested' = r.nx
          /\ frame' = OverRan("game_over", r.nx, session.pending > 0)
    /\ UNCHANGED NotOver

\* advance_level.run_if(check_won)
advance_level_run ==
    /\ OverCanRun("advance_level")
    /\ LET nx == IF session.won THEN AdvanceLevel(session.level, requested)
                 ELSE requested
       IN /\ requested' = nx
          /\ frame' = OverRan("advance_level", nx, session.won /\ session.level = "Three")
    /\ UNCHANGED session
    /\ UNCHANGED NotOver

back_to_menu ==
    /\ OverCanRun("back_to_menu")
    /\ LET nx == BackToMenu(frame.escape, requested)
       IN /\ requested' = nx
          /\ frame' = OverRan("back_to_menu", nx, frame.escape)
    /\ UNCHANGED session
    /\ UNCHANGED NotOver

\* The inputs a frame can have: Escape held or not, the lethal hits on the
\* player that take_damage will find (none once the player is gone), and
\* whether the kill that completes the level is among the hits
FrameInputs(player, won) ==
    [escape : BOOLEAN,
     lethal : IF player THEN 0..MaxLethal ELSE {0},
     last_kill : IF won THEN {FALSE} ELSE BOOLEAN,
     ran : {{}},
     writes : {<<>>}]

\* The end of the frame and the StateTransition schedule of the next: the
\* Commands are applied (a player hit lethally is despawned), a requested
\* GameplayState ends the session, a requested level is entered
over_end_frame ==
    /\ session.gameplay_state = "Playing"
    /\ frame.ran = OverSystems
    /\ session.frames < MaxFrames
    /\ LET leaves == requested.next_gameplaystate # Unset
           enters == ~leaves /\ requested.next_level # Unset
           player == session.player /\ ~session.doomed
           won == IF enters THEN FALSE ELSE session.won
       IN /\ session' = [session EXCEPT
                           !.gameplay_state = IF leaves THEN requested.next_gameplaystate
                                              ELSE @,
                           !.level = IF enters THEN requested.next_level ELSE @,
                           !.won = won,
                           !.player = player,
                           !.frames = @ + 1]
          /\ requested' = IF leaves THEN requested
                          ELSE [requested EXCEPT !.next_level = Unset]
          /\ IF leaves THEN frame' = frame
             ELSE frame' \in FrameInputs(player, won)
    /\ UNCHANGED NotOver

OverInit ==
    /\ session \in [level : {"Two", "Three"}, won : {FALSE}, player : {TRUE},
                    doomed : {FALSE}, pending : {0}, gameplay_state : {"Playing"},
                    frames : {0}]
    /\ frame \in FrameInputs(TRUE, FALSE)
    /\ requested = [next_level |-> Unset, next_gameplaystate |-> Unset,
                    next_gamestate |-> Unset]

OverIdle ==
    /\ session = [level |-> "None", won |-> FALSE, player |-> TRUE, doomed |-> FALSE,
                  pending |-> 0, gameplay_state |-> "None", frames |-> 0]
    /\ frame = [escape |-> FALSE, lethal |-> 0, last_kill |-> FALSE, ran |-> {},
                writes |-> <<>>]
    /\ requested = [next_level |-> Unset, next_gameplaystate |-> Unset,
                    next_gamestate |-> Unset]

\* ------------------------------------------------------------------------
\* collectables.rs: CollectableLifetime, manage_lifetimes, for one pickup
\* ------------------------------------------------------------------------
LifetimeMs == 15000
FlashMs == 500

\* The frame times explored: a regular frame, a slow one, and a hitch that
\* can span two flash periods
LifeDeltas == {100, 250, 600}

\* Timer::tick of a Repeating timer: it is finished on the tick on which it
\* wraps only, and keeps the remainder as its elapsed time
RepeatingTick(t, delta) ==
    LET e == t.elapsed + delta
    IN IF e >= t.duration
       THEN [t EXCEPT !.elapsed = e % t.duration, !.finished = TRUE]
       ELSE [t EXCEPT !.elapsed = e, !.finished = FALSE]

\* CollectableLifetime::new, as spawn_collectable_around calls it
CollectableLifetime ==
    [l_timer |-> Timer(LifetimeMs), v_timer |-> Timer(FlashMs), flash |-> FALSE]

\* l_timer.remaining() >= l_timer.duration() / 2: the loop body ends early
StillFreshNever(l_timer) == FALSE
StillFresh(l_timer) ==
    l_timer.duration - l_timer.elapsed >= l_timer.duration \div 2

\* The loop body for one pickup
ManageLifetime(lifetime, delta) ==
    LET v == RepeatingTick(lifetime.v_timer, delta)
        l == TimerTick(lifetime.l_timer, delta)
        ticked == [lifetime EXCEPT !.v_timer = v, !.l_timer = l]
    IN IF StillFresh(l)
       THEN [lifetime |-> ticked, toggled |-> FALSE, commands |-> <<>>]
       ELSE [lifetime |-> IF v.finished THEN [ticked EXCEPT !.flash = ~@] ELSE ticked,
             toggled  |-> v.finished,
             commands |-> IF l.finished THEN << [despawn |-> "collectable",
                                                 recursive |-> FALSE] >>
                          ELSE <<>>]

manage_lifetimes ==
    /\ collectable.exists /\ collectable.queued = <<>>
    /\ \E delta \in LifeDeltas :
         LET r == ManageLifetime(collectable.lifetime, delta)
         IN /\ collectable' = [collectable EXCEPT
                                 !.lifetime = r.lifetime,
                                 !.queued = r.commands,
                                 !.age = @ + delta,
                                 !.toggles = IF r.toggled THEN @ + 1 ELSE @]
            /\ life_log' = [delta |-> delta, toggled |-> r.toggled,
                            commands |-> r.commands, ran |-> TRUE]
    /\ UNCHANGED NotLife

\* handle_collectable_col and despawn_entity: the player takes the pickup
collectable_taken ==
    /\ collectable.exists /\ collectable.queued = <<>>
    /\ collectable' = [collectable EXCEPT
                         !.queued = << [despawn |-> "collectable", recursive |-> FALSE] >>,
                         !.taken = TRUE]
    /\ life_log' = [life_log EXCEPT !.ran = FALSE]
    /\ UNCHANGED NotLife

\* The end of the Update schedule: the queued despawn is applied
life_end_update ==
    /\ collectable.exists /\ collectable.queued # <<>>
    /\ collectable' = [collectable EXCEPT !.exists = FALSE, !.queued = <<>>]
    /\ life_log' = [life_log EXCEPT !.ran = FALSE]
    /\ UNCHANGED NotLife

LifeInit ==
    /\ collectable = [lifetime |-> CollectableLifetime, exists |-> TRUE,
                      queued |-> <<>>, taken |-> FALSE, age |-> 0, toggles |-> 0]
    /\ life_log = [delta |-> 0, toggled |-> FALSE, commands |-> <<>>, ran |-> FALSE]

LifeIdle ==
    /\ collectable = [lifetime |-> CollectableLifetime, exists |-> FALSE,
                      queued |-> <<>>, taken |-> FALSE, age |-> 0, toggles |-> 0]
    /\ life_log = [delta |-> 0, toggled |-> FALSE, commands |-> <<>>, ran |-> FALSE]

\* ------------------------------------------------------------------------
\* shared.rs: Movement, move_object. Speeds are in thousandths of a unit per
\* second, accelerations in units per second squared, Time::delta in
\* milliseconds, so that acceleration * dt is a speed.
\* ------------------------------------------------------------------------
METRE == 20
MaxMoveFrames == 2

\* The frame times explored
MoveDeltas == {16, 100}

\* The components move_object is instantiated for, and one entity of each
MoveKinds == {"Bullet", "Enemy", "Collectable"}
Movers == {"bullet", "enemy", "pickup"}
MoverKind(e) ==
    CASE e = "bullet" -> "Bullet"
      [] e = "enemy"  -> "Enemy"
      [] e = "pickup" -> "Collectable"

VecZero == <<0, 0>>
VecAdd(u, v) == <<u[1] + v[1], u[2] + v[2]>>
VecMul(v, k) == <<v[1] * k, v[2] * k>>

\* Movement::new
Movement(velocity, acceleration, local, v_local, a_local) ==
    [velocity |-> velocity, acceleration |-> acceleration, local |-> local,
     v_local |-> v_local, a_local |-> a_local, first_run |-> TRUE]

\* Movement::absolute and Movement::relative
MovementAbsolute(velocity, acceleration) ==
    Movement(velocity, acceleration, FALSE, VecZero, VecZero)
MovementRelative(velocity, acceleration) ==
    Movement(VecZero, VecZero, TRUE, velocity, acceleration)

\* transform.rotation * v.extend(0.0), truncated: a rotation about the z
\* axis, here by a number of quarter turns
Quarters == 0..3
Rotate(turns, v) ==
    CASE turns = 0 -> v
      [] turns = 1 -> <<-v[2], v[1]>>
      [] turns = 2 -> <<-v[1], -v[2]>>
      [] turns = 3 -> <<v[2], -v[1]>>

\* if movement.local
LocalAlways(movement) == TRUE
Local(movement) == movement.local

\* The loop body of move_object for one entity of the query
MoveObject(object, dt) ==
    LET movement == object.movement
        v_local == IF Local(movement)
                   THEN VecAdd(movement.v_local, VecMul(movement.a_local, dt))
                   ELSE movement.v_local
        dv_local == IF Local(movement)
                    THEN Rotate(object.transform.rotation, v_local)
                    ELSE VecZero
        velocity == VecAdd(movement.velocity, VecMul(movement.acceleration, dt))
        dv == VecAdd(dv_local, velocity)
    IN [object EXCEPT !.movement.v_local = v_local,
                      !.movement.velocity = velocity,
                      !.linvel = VecMul(dv, METRE)]

\* move_object::<T>: every entity With<T> of the query
move_object(T) ==
    /\ T \notin move_frame.done
    /\ objects' = [e \in Movers |->
                     IF objects[e].kind = T
                     THEN MoveObject(objects[e], move_frame.dt)
                     ELSE objects[e]]
    /\ move_frame' = [move_frame EXCEPT !.done = @ \cup {T}]
    /\ move_log' = [ran |-> T, dt |-> move_frame.dt]
    /\ UNCHANGED NotMove

\* The next frame: the three systems run once in each frame of
\* GameplayState::Playing, with that frame's Time::delta
move_end_frame ==
    /\ move_frame.done = MoveKinds
    /\ move_frame.frames < MaxMoveFrames
    /\ \E dt \in MoveDeltas :
         move_frame' = [dt |-> dt, done |-> {}, frames |-> move_frame.frames + 1]
    /\ move_log' = [ran |-> "None", dt |-> 0]
    /\ UNCHANGED <<objects, NotMove>>

\* The Movement values entities are spawned with: enemy bullets of the levels
\* (level1.rs:45-51, enemy.rs:252), a value Movement::new admits in which
\* `local` is unset and the local fields are not zero, enemies
\* (enemy.rs:103, Movement::ZERO and shared.rs:112-119, ONE_FWD), and pickups
\* (event.rs:128-134, levels/mod.rs:106)
BulletMovements ==
    { Movement(VecZero, VecZero, TRUE, <<0, 3000>>, <<0, 2>>),
      MovementRelative(VecZero, <<0, -3>>),
      Movement(<<1000, 0>>, <<1, 0>>, FALSE, <<0, 3000>>, <<0, 2>>) }
EnemyMovements ==
    { MovementRelative(VecZero, VecZero),
      MovementRelative(<<0, 1000>>, VecZero) }
PickupMovements ==
    { MovementAbsolute(<<0, -7000>>, VecZero),
      MovementAbsolute(<<0, -4000>>, VecZero) }

Mover(e, movement, rotation) ==
    [kind |-> MoverKind(e), movement |-> movement,
     transform |-> [translation |-> VecZero, rotation |-> rotation],
     linvel |-> VecZero]

MoveInit ==
    /\ \E b \in BulletMovements, n \in EnemyMovements, p \in PickupMovements :
       \E qb \in Quarters, qn \in {0, 2} :
         objects = [e \in Movers |->
                      CASE e = "bullet" -> Mover(e, b, qb)
                        [] e = "enemy"  -> Mover(e, n, qn)
                        [] e = "pickup" -> Mover(e, p, 0)]
    /\ \E dt \in MoveDeltas : move_frame = [dt |-> dt, done |-> {}, frames |-> 0]
    /\ move_log = [ran |-> "None", dt |-> 0]

MoveIdle ==
    /\ objects = [e \in Movers |-> Mover(e, MovementRelative(VecZero, VecZero), 0)]
    /\ move_frame = [dt |-> 0, done |-> MoveKinds, frames |-> MaxMoveFrames]
    /\ move_log = [ran |-> "None", dt |-> 0]

FieldIdle ==
    /\ bullets = [b \in Slots |-> NoBullet]
    /\ converted = <<>>

LateIdle == FireIdle /\ FieldIdle /\ OverIdle /\ LifeIdle /\ MoveIdle

Init == TickInit /\ AttackIdle /\ BulletIdle /\ ScoreIdle /\ SpecialIdle /\ LevelIdle /\ PowerIdle /\ LateIdle

Next ==
    \/ handle_collisions
    \/ handle_bullet_col
    \/ handle_player_col
    \/ handle_enemy_col
    \/ handle_collectable_col
    \/ take_damage
    \/ score_on_enemy_damage
    \/ despawn_entity
    \/ create_collectables_on_despawn
    \/ game_over
    \/ update_ui
    \/ cleanup_collisions
    \/ EndFrame

Spec == Init /\ [][Next]_vars

\* The same systems with the player among grazing sensors, with two player
\* bullets on one enemy, and with the player in contact with an enemy
GrazeSpecInit ==
    /\ TickInitFrom(GrazeScenarios)
    /\ AttackIdle /\ BulletIdle /\ ScoreIdle /\ SpecialIdle /\ LevelIdle /\ PowerIdle /\ LateIdle
GrazeSpec == GrazeSpecInit /\ [][Next]_vars

VolleySpecInit ==
    /\ TickInitFrom(VolleyScenarios)
    /\ AttackIdle /\ BulletIdle /\ ScoreIdle /\ SpecialIdle /\ LevelIdle /\ PowerIdle /\ LateIdle
VolleySpec == VolleySpecInit /\ [][Next]_vars

ContactSpecInit ==
    /\ TickInitFrom(ContactScenarios)
    /\ AttackIdle /\ BulletIdle /\ ScoreIdle /\ SpecialIdle /\ LevelIdle /\ PowerIdle /\ LateIdle
ContactSpec == ContactSpecInit /\ [][Next]_vars

\* The same systems from the frame after the first hit of the volley
StaleSpecInit ==
    /\ StaleInit
    /\ AttackIdle /\ BulletIdle /\ ScoreIdle /\ SpecialIdle /\ LevelIdle /\ PowerIdle /\ LateIdle
StaleSpec == StaleSpecInit /\ [][Next]_vars

\* The attack pattern state machine of one enemy, frame after frame
AttackSpecInit == TickIdle /\ AttackInit /\ BulletIdle /\ ScoreIdle /\ SpecialIdle /\ LevelIdle /\ PowerIdle /\ LateIdle
AttackNext == enemy_attack
AttackSpec == AttackSpecInit /\ [][AttackNext]_vars

\* A Bullet under any sequence of calls
BulletSpecInit == TickIdle /\ AttackIdle /\ BulletInit /\ ScoreIdle /\ SpecialIdle /\ LevelIdle /\ PowerIdle /\ LateIdle
BulletNext == set_damage \/ set_max \/ set
BulletSpec == BulletSpecInit /\ [][BulletNext]_vars

\* A Score under any sequence of adds and multiplier increases
ScoreSpecInit == TickIdle /\ AttackIdle /\ BulletIdle /\ ScoreInit /\ SpecialIdle /\ LevelIdle /\ PowerIdle /\ LateIdle
ScoreNext == score_add \/ score_increase_multiplier
ScoreSpec == ScoreSpecInit /\ [][ScoreNext]_vars

\* The frames of a session in which the special attack key is pressed
SpecialSpecInit == SpecialInit /\ AttackIdle /\ BulletIdle /\ ScoreIdle /\ LevelIdle /\ PowerIdle /\ LateIdle
SpecialNext ==
    \/ special_attack
    \/ handle_collisions
    \/ handle_bullet_col
    \/ handle_player_col
    \/ handle_enemy_col
    \/ handle_collectable_col
    \/ take_damage
    \/ score_on_enemy_damage
    \/ despawn_entity
    \/ create_collectables_on_despawn
    \/ game_over
    \/ update_ui
    \/ cleanup_collisions
    \/ SpecialEndFrame
SpecialSpec == SpecialSpecInit /\ [][SpecialNext]_vars

\* The level of a play session
LevelSpecInit ==
    TickIdle /\ AttackIdle /\ BulletIdle /\ ScoreIdle /\ SpecialIdle /\ LevelInit /\ PowerIdle /\ LateIdle
LevelNext ==
    \/ state_transition
    \/ enemy_killed
    \/ boss_killed
    \/ bullet_spawned
    \/ leave_playing
    \/ advance_level
    \/ end_update
LevelSpec == LevelSpecInit /\ [][LevelNext]_vars

\* A Power under any sequence of calls
PowerSpecInit ==
    TickIdle /\ AttackIdle /\ BulletIdle /\ ScoreIdle /\ SpecialIdle /\ LevelIdle /\ PowerInit /\ LateIdle
PowerNext == power_set \/ power_add \/ power_subtract
PowerSpec == PowerSpecInit /\ [][PowerNext]_vars

\* The primary fire of the player
FireSpecInit ==
    /\ TickIdle /\ AttackIdle /\ BulletIdle /\ ScoreIdle /\ SpecialIdle /\ LevelIdle /\ PowerIdle
    /\ FireInit /\ FieldIdle /\ OverIdle /\ LifeIdle /\ MoveIdle
FireNext == spawn_player_bullet
FireSpec == FireSpecInit /\ [][FireNext]_vars

\* The systems that request a GameState, over the frames of a session
OverSpecInit ==
    /\ TickIdle /\ AttackIdle /\ BulletIdle /\ ScoreIdle /\ SpecialIdle /\ LevelIdle /\ PowerIdle
    /\ FireIdle /\ FieldIdle /\ OverInit /\ LifeIdle /\ MoveIdle
OverNext ==
    \/ take_damage_run
    \/ game_over_run
    \/ advance_level_run
    \/ back_to_menu
    \/ over_end_frame
OverSpec == OverSpecInit /\ [][OverNext]_vars

\* The lifetime of a pickup
LifeSpecInit ==
    /\ TickIdle /\ AttackIdle /\ BulletIdle /\ ScoreIdle /\ SpecialIdle /\ LevelIdle /\ PowerIdle
    /\ FireIdle /\ FieldIdle /\ OverIdle /\ LifeInit /\ MoveIdle
LifeNext ==
    \/ manage_lifetimes
    \/ collectable_taken
    \/ life_end_update
LifeSpec == LifeSpecInit /\ [][LifeNext]_vars

\* The movement of bullets, enemies and pickups
MoveSpecInit ==
    /\ TickIdle /\ AttackIdle /\ BulletIdle /\ ScoreIdle /\ SpecialIdle /\ LevelIdle /\ PowerIdle
    /\ FireIdle /\ FieldIdle /\ OverIdle /\ LifeIdle /\ MoveInit
MoveNext ==
    \/ \E T \in MoveKinds : move_object(T)
    \/ move_end_frame
MoveSpec == MoveSpecInit /\ [][MoveNext]_vars

\* ========================================================================
\* Properties
\* ========================================================================
FrameBoundary == done = {} /\ tick > 0 /\ ~panicked

\* A take_damage log entry whose target was found and whose hit was lethal
Lethal(en) == en.found /\ en.hp_before <= en.event.damage
NonLethal(en) == en.found /\ en.hp_before > en.event.damage

\* C1: once cleanup_collisions has run in a frame and the deferred commands
\* of the frame are applied, the Collisions table has no entry and no entity
\* carries a CollisionMarker.
C1_TableEmptyAfterCleanup ==
    FrameBoundary =>
        /\ \A e \in Entities : collisions[e] = <<>>
        /\ \A e \in Entities : alive[e] => ~marker[e]

\* C2: in every frame the systems run in one fixed relative order:
\* handle_collisions, then the bullet, player, enemy and collectable
\* handlers in that order, then the damage / despawn consumers, then the UI
\* refresh, and cleanup_collisions last.
Consumers == {"take_damage", "score_on_enemy_damage", "despawn_entity",
              "create_collectables_on_despawn", "game_over"}

C2_FixedSystemOrder ==
    /\ done # {} => "handle_collisions" \in done
    /\ "handle_player_col" \in done => "handle_bullet_col" \in done
    /\ "handle_enemy_col" \in done => "handle_player_col" \in done
    /\ "handle_collectable_col" \in done => "handle_enemy_col" \in done
    /\ done \cap UpdateStatsSet # {} => CollisionsSet \subseteq done
    /\ "update_ui" \in done => Consumers \subseteq done
    /\ "cleanup_collisions" \in done => done = Systems

\* C3: a damage event of amount a on a target of health h: if h > a the
\* health becomes h - a and nothing else happens; if h <= a (h = a included)
\* the hit is lethal; no target is left alive at a health of 0 or less.
C3_DamageThreshold ==
    /\ \A i \in DOMAIN log.damage :
         LET en == log.damage[i] IN
         /\ NonLethal(en) =>
              /\ en.hp_after = en.hp_before - en.event.damage
              /\ en.desp = <<>>
              /\ en.game_over = 0
              /\ en.killed_after = en.killed_before
         /\ Lethal(en) =>
              \E j \in DOMAIN en.desp : en.desp[j].entity = en.event.entity
    /\ \A e \in Entities : alive[e] /\ health[e] # NoHealth => health[e] > 0

C3_LethalAtEquality ==
    \E i \in DOMAIN log.damage :
        /\ log.damage[i].found
        /\ log.damage[i].hp_before = log.damage[i].event.damage
        /\ log.damage[i].desp # <<>>

\* C4: a lethal event raises a GameOverEvent if its category is Player,
\* adds exactly 1 to both kill tallies of the player if it is Enemy, and
\* does neither for any other or absent category; a non-lethal event does
\* neither.
C4_LethalByCategory ==
    \A i \in DOMAIN log.damage :
        LET en == log.damage[i]
            ty == en.event.entity_type
        IN /\ Lethal(en) /\ ty = "Player" =>
                en.game_over = 1 /\ en.killed_after = en.killed_before
           /\ Lethal(en) /\ ty = "Enemy" /\ alive["player"] =>
                /\ en.game_over = 0
                /\ en.killed_after.total = en.killed_before.total + 1
                /\ en.killed_after.current_level = en.killed_before.current_level + 1
           /\ Lethal(en) /\ ty \notin {"Player", "Enemy"} =>
                en.game_over = 0 /\ en.killed_after = en.killed_before
           /\ NonLethal(en) =>
                en.game_over = 0 /\ en.killed_after = en.killed_before

C4_EnemyKillCounted ==
    \E i \in DOMAIN log.damage :
        /\ Lethal(log.damage[i])
        /\ log.damage[i].event.entity_type = "Enemy"
        /\ log.damage[i].killed_after.total = log.damage[i].killed_before.total + 1

\* C5 as stated: a lethal event requests a recursive despawn of the target
\* with 5 score and 3 power drops and, if the target has a linked UI entity,
\* a non-recursive despawn without drops of that UI entity.
C5_TargetRecursiveBarNot ==
    \A i \in DOMAIN log.damage :
        LET en == log.damage[i] IN
        Lethal(en) =>
            /\ \E j \in DOMAIN en.desp :
                   en.desp[j] = [entity |-> en.event.entity, recursive |-> TRUE,
                                 drop_score |-> 5, drop_power |-> 3]
            /\ Link(en.event.entity) # NoEntity =>
                   \E j \in DOMAIN en.desp :
                       en.desp[j] = [entity |-> Link(en.event.entity),
                                     recursive |-> FALSE,
                                     drop_score |-> 0, drop_power |-> 0]

\* C5 amended: a lethal event, whatever its category, requests a
\* non-recursive despawn of the target with exactly 5 score and 3 power
\* drops, preceded, if the target has a linked UI entity, by a recursive
\* despawn without drops of that UI entity; it requests nothing else.
C5_TargetPlainBarRecursive ==
    \A i \in DOMAIN log.damage :
        LET en == log.damage[i]
            target == [entity |-> en.event.entity, recursive |-> FALSE,
                       drop_score |-> 5, drop_power |-> 3]
            bar == [entity |-> Link(en.event.entity), recursive |-> TRUE,
                    drop_score |-> 0, drop_power |-> 0]
        IN Lethal(en) =>
              en.desp = IF Link(en.event.entity) # NoEntity THEN << bar, target >>
                        ELSE << target >>

C5_LethalWithHealthBar ==
    \E i \in DOMAIN log.damage :
        /\ Lethal(log.damage[i])
        /\ Link(log.damage[i].event.entity) # NoEntity
        /\ Len(log.damage[i].desp) = 2

\* C6: a player bullet (damage low, maximum high) that begins to overlap an
\* enemy at Power p of P emits a damage event of low + (p/P)*(high - low);
\* an enemy bullet emits its unscaled damage and an end-event emits nothing.
\* With low 5, high 20, p 250, P 500 on an enemy of health 20 the hit deals
\* 12.5: the enemy is left at 7.5, no despawn or loot is requested, the kill
\* counter is unchanged and the score receives one add(20).
C6_PowerScaledDamage ==
    /\ \A i \in DOMAIN log.bullet :
         LET en == log.bullet[i]
             b == Bullet(en.bullet)
         IN /\ ~en.collision.started /\ en.collision.other_type \in {"Player", "Enemy"}
                 => en.dmg = <<>>
            /\ en.collision.started /\ en.collision.other_type = "Enemy"
               /\ en.bullet = "pbullet" /\ alive["player"] =>
                 /\ Len(en.dmg) = 1
                 /\ en.dmg[1].entity = en.collision.other_entity
                 /\ PowerMax * (en.dmg[1].damage - b.damage)
                       = en.power * (b.max_damage - b.damage)
            /\ en.collision.started /\ en.collision.other_type = "Player"
               /\ en.bullet = "ebullet" =>
                 /\ Len(en.dmg) = 1
                 /\ en.dmg[1].damage = b.damage
    /\ \A i \in DOMAIN log.bullet :
         LET en == log.bullet[i] IN
         en.bullet = "pbullet" /\ en.power = 250 /\ en.dmg # <<>>
            => en.dmg[1].damage = 1250
    /\ \A i \in DOMAIN log.damage :
         LET en == log.damage[i] IN
         en.found /\ en.event.entity_type = "Enemy" /\ en.event.damage = 1250
         /\ en.hp_before = 2000 =>
            /\ en.hp_after = 750
            /\ en.desp = <<>>
            /\ en.killed_after = en.killed_before
    /\ \A i \in DOMAIN log.score :
         LET en == log.score[i] IN
         en.event.entity_type = "Enemy" /\ en.event.damage = 1250 /\ alive["player"] =>
            en.after.pre_multiplier_score = en.before.pre_multiplier_score + 20

C6_HalfPowerHitSurvived ==
    /\ {"take_damage", "score_on_enemy_damage", "create_collectables_on_despawn"}
          \subseteq done
    /\ \E i \in DOMAIN log.bullet :
          log.bullet[i].bullet = "pbullet" /\ log.bullet[i].power = 250
          /\ log.bullet[i].dmg # <<>>
    /\ alive["enemy"] /\ health["enemy"] = 750
    /\ score.pre_multiplier_score = 20
    /\ enemies_killed.total = 0
    /\ loot = [score |-> 0, power |-> 0]

\* C7: the observer gives the player's score exactly one add(20) for every
\* damage event of category Enemy, lethal or not, and nothing for an event
\* of category Player or without category; it sees every event that
\* take_damage sees.
C7_ScorePerEnemyHit ==
    /\ \A i \in DOMAIN log.score :
         LET en == log.score[i] IN
         alive["player"] =>
            /\ en.after.pre_multiplier_score - en.before.pre_multiplier_score
                  = IF en.event.entity_type = "Enemy" THEN 20 ELSE 0
            /\ en.event.entity_type # "Enemy" => en.after = en.before
    /\ "score_on_enemy_damage" \in done => damage_ev["score_on_enemy_damage"] = <<>>
    /\ {"take_damage", "score_on_enemy_damage"} \subseteq done =>
         [i \in DOMAIN log.score |-> log.score[i].event]
            = [i \in DOMAIN log.damage |-> log.damage[i].event]

C7_LethalHitScored ==
    \E i \in DOMAIN log.score, j \in DOMAIN log.damage :
        /\ log.score[i].event.entity_type = "Enemy"
        /\ log.score[i].after.pre_multiplier_score
              = log.score[i].before.pre_multiplier_score + 20
        /\ i = j
        /\ Lethal(log.damage[j])

\* C8: a pattern without inner cooldown spawns only on a run where its outer
\* cooldown has finished, and that run resets the cooldown; two volleys of
\* the pattern are at least one cooldown duration of ticking apart; a volley
\* is the whole group, indices 0 .. number-1, spawned in the one run; the
\* cursor of such a pattern never leaves 0.
C8_WholeGroupPerCooldown ==
    /\ LET p == attacks.attacks[attack_log.pattern] IN
       p.icd = NoTimer /\ attack_log.spawned # <<>> =>
          /\ attack_log.cd_finished
          /\ p.cd.elapsed = 0 /\ ~p.cd.finished
          /\ attack_log.spawned = [i \in 1..p.number |-> i - 1]
          /\ attack_log.gap = NeverFired \/ attack_log.gap >= p.cd.duration
    /\ \A q \in DOMAIN attacks.attacks :
          attacks.attacks[q].icd = NoTimer => attacks.attacks[q].current_bullet = 0

C8_SecondVolley ==
    /\ attacks.attacks[attack_log.pattern].icd = NoTimer
    /\ Len(attack_log.spawned) = attacks.attacks[attack_log.pattern].number
    /\ attack_log.spawned # <<>>
    /\ attack_log.gap # NeverFired

\* C9 as stated: a pattern with an inner cooldown of 100 ms, 5 bullets and an
\* outer cooldown above 500 ms that has been ticked for 500 ms or more since
\* its timers were fresh has spawned exactly the bullets 0,1,2,3,4, one at
\* the end of each 100 ms period, and its cursor is 5.
C9_FiveBulletsIn500ms ==
    \A q \in DOMAIN attacks.attacks :
        LET p == attacks.attacks[q]
            h == history[q]
        IN p.icd # NoTimer /\ p.icd.duration = 100 /\ p.number = 5
           /\ p.cd.duration > 500 /\ h.clock >= 500 =>
              /\ h.volley = [i \in 1..5 |-> [index |-> i - 1, at |-> 100 * i]]
              /\ p.current_bullet = 5

\* C10 as stated: damage <= max_damage after new and any calls with any
\* arguments.
C10_DamageAtMostMax ==
    bullet.damage # NaN /\ bullet.max_damage # NaN /\ bullet.damage <= bullet.max_damage

\* C10 amended: after new(d, m) and any sequence of set_damage, set_max and
\* set calls, damage > max_damage never holds, so that damage <= max_damage
\* whenever neither is NaN (a NaN argument is stored as given); set_damage(d)
\* with d > max stores max and leaves max unchanged; set_max(m) with m below
\* the current damage lowers the damage to m.
C10_DamageNeverAboveMax ==
    /\ ~(bullet.damage # NaN /\ bullet.max_damage # NaN
         /\ bullet.damage > bullet.max_damage)
    /\ bullet_call.op = "set_damage" /\ bullet_call.damage # NaN
       /\ bullet_call.before.max_damage # NaN
       /\ bullet_call.damage > bullet_call.before.max_damage =>
          bullet = [damage |-> bullet_call.before.max_damage,
                    max_damage |-> bullet_call.before.max_damage]
    /\ bullet_call.op = "set_max" /\ bullet_call.max_damage # NaN
       /\ bullet_call.before.damage # NaN
       /\ bullet_call.max_damage < bullet_call.before.damage =>
          bullet = [damage |-> bullet_call.max_damage,
                    max_damage |-> bullet_call.max_damage]

C10_MaxLoweredBelowDamage ==
    /\ bullet_call.op = "set_max"
    /\ bullet_call.max_damage # NaN /\ bullet_call.before.damage # NaN
    /\ bullet_call.max_damage < bullet_call.before.damage
    /\ bullet.damage = bullet_call.max_damage

\* C11 as stated: after every add the score is floor(P * multiplier), P the
\* sum of the amounts added so far, whether the multiplier is read as the
\* value the Score holds or as 1.5 plus 0.01 per increase: one of the two
\* readings has held at every add so far.
C11_ScoreIsFloor == tally_call.stored \/ tally_call.decimal

\* C12 as stated: a bullet whose overlap with a Wall ends gets exactly one
\* non-cascading despawn request with zero drops.
C12_WallDespawnNotCascading ==
    \A i \in DOMAIN log.bullet :
        LET en == log.bullet[i] IN
        en.collision.other_type = "Wall" /\ ~en.collision.started =>
            en.desp = << [entity |-> en.bullet, recursive |-> FALSE,
                          drop_score |-> 0, drop_power |-> 0] >>

\* C12 amended: a bullet (of the player or of an enemy) whose overlap with a
\* Wall ends gets exactly one recursive (cascading) despawn request with
\* zero score and zero power drops and no damage event; a begin-event
\* against a Wall produces neither a despawn request nor a damage event;
\* while bullets meet nothing but walls, no damage event is sent, no loot
\* is spawned and the score does not change.
C12_WallDespawnCascading ==
    /\ \A i \in DOMAIN log.bullet :
         LET en == log.bullet[i] IN
         en.collision.other_type = "Wall" =>
            /\ en.dmg = <<>>
            /\ en.desp = IF en.collision.started THEN <<>>
                         ELSE << [entity |-> en.bullet, recursive |-> TRUE,
                                  drop_score |-> 0, drop_power |-> 0] >>
    /\ (\A ev \in pool : IsBullet(ev.e1) /\ ev.e2 = "wall") =>
          /\ loot = [score |-> 0, power |-> 0]
          /\ score = ScoreDefault
          /\ damage_ev = [r \in DOMAIN damage_ev |-> <<>>]

C12_EnemyBulletLeftWall ==
    /\ \E i \in DOMAIN log.bullet :
          /\ log.bullet[i].bullet = "ebullet"
          /\ log.bullet[i].collision.other_type = "Wall"
          /\ ~log.bullet[i].collision.started
          /\ Len(log.bullet[i].desp) = 1
    /\ "create_collectables_on_despawn" \in done

\* C13: in a run of handle_player_col every begin-event with a Graze sensor
\* among the player's records adds exactly 1 to Graze and 0.01 to the score
\* multiplier, every other record (an end-event included) leaves both as
\* they are, and the records are applied one after the other, so that k
\* begin-events add k and k * 0.01 (the f32 nearest to 1.5 + k * 0.01 for
\* the first six grazes): 3 of them add 3 and 0.03.
C13_GrazePerBeginEvent ==
    /\ \A i \in DOMAIN log.player :
         LET en == log.player[i]
             begin == en.collision.other_type = "Graze" /\ en.collision.started
             d == en.multiplier_after * (2^7)
                     - (en.multiplier_before * (2^7) + F32Hundredth)
         IN /\ begin => /\ en.graze_after = en.graze_before + 1
                        /\ d >= 0 - 2^6 /\ d <= 2^6
            /\ ~begin => /\ en.graze_after = en.graze_before
                         /\ en.multiplier_after = en.multiplier_before
            /\ i > 1 => /\ en.graze_before = log.player[i - 1].graze_after
                        /\ en.multiplier_before = log.player[i - 1].multiplier_after
    /\ log.player # <<>> =>
         /\ graze = log.player[Len(log.player)].graze_after
         /\ score.multiplier = log.player[Len(log.player)].multiplier_after
    /\ graze <= 6 => score.multiplier * 100 \in
                        ((150 + graze) * F32One - 50) .. ((150 + graze) * F32One + 50)

C13_ThreeGrazesInOneRun ==
    /\ Len(log.player) >= 3
    /\ Cardinality({i \in DOMAIN log.player :
                       log.player[i].collision.other_type = "Graze"
                       /\ log.player[i].collision.started}) = 3
    /\ graze = log.player[1].graze_before + 3
    /\ log.player[1].multiplier_before = F32FromHundredths(150)
    /\ score.multiplier = F32FromHundredths(153)

\* What one run of special_attack did, as C14 has it but for the score: with
\* a player and c > 0 charges it leaves c - 1, sends one despawn request per
\* live enemy bullet and none for another entity, and spawns the 35 bullets
\* of the burst; with no charge (or no player) it does nothing.
SpecialRunAsClaimed(en) ==
    LET targets == {e \in en.live : ColliderType(e) = "EnemyBullet"} IN
    /\ en.player /\ en.before > 0 =>
          /\ en.after = en.before - 1
          /\ Len(en.despawn) = Cardinality(targets)
          /\ {en.despawn[j].entity : j \in DOMAIN en.despawn} = targets
          /\ Len(en.spawned) = BurstNumber
    /\ ~en.player \/ en.before = 0 =>
          /\ en.after = en.before
          /\ en.despawn = <<>>
          /\ en.spawned = <<>>

\* C14 as stated: special_attack with c > 0 charges leaves c - 1, requests
\* the despawn of every live enemy bullet and of no player bullet, spawns 35
\* player bullets, is a no-op at c = 0, never takes the charges below 0, and
\* each despawned enemy bullet awards +1 score: once the requests have been
\* consumed the score total has risen by one per request.
C14_PlusOneScoreEach ==
    /\ specials >= 0
    /\ \A i \in DOMAIN special_log : SpecialRunAsClaimed(special_log[i])
    /\ (\A r \in DOMAIN despawn_ev : despawn_ev[r] = <<>>) =>
          score.pre_multiplier_score = cleared

\* C14, amended: as above, but a request awards no score: it is a recursive
\* despawn request asking for one score pickup (and no power pickup) to be
\* dropped; the Score is left as it is, and at most one score pickup per
\* request is spawned.
C14_OnePickupRequestedEach ==
    /\ specials >= 0
    /\ \A i \in DOMAIN special_log :
         /\ SpecialRunAsClaimed(special_log[i])
         /\ \A j \in DOMAIN special_log[i].despawn :
              LET ev == special_log[i].despawn[j] IN
              /\ ev.recursive
              /\ ev.drop_score = SpecialDropScore
              /\ ev.drop_power = 0
         /\ score = special_log[i].score_before
    /\ score = ScoreDefault
    /\ loot.score <= cleared * SpecialDropScore
    /\ loot.power = 0

\* The attack fired in two frames in a row, the second time on two live
\* enemy bullets next to a live player bullet, and pickups were dropped
C14_SecondSpecialInARow ==
    /\ tick = 1
    /\ special_log # <<>>
    /\ special_log[1].player /\ special_log[1].before > 0
    /\ Len(special_log[1].despawn) = 2
    /\ "pbullet" \in special_log[1].live
    /\ cleared = 4
    /\ loot.score > 0

\* The order of the levels of a session
LevelChain == << "None", "One", "Two", "Three" >>
IsPrefix(p, q) == Len(p) <= Len(q) /\ \A i \in DOMAIN p : p[i] = q[i]

\* C15: the level of a play session only moves None -> One -> Two -> Three:
\* the levels entered so far are a beginning of that chain (none skipped,
\* none entered twice), followed by None only once the session has left
\* Playing; Endless is never the level nor queued; advance_level queues the
\* immediate successor, and from Three it queues level None,
\* GameplayState::None and GameState::GameWon; GameWon is requested only
\* after level Three has been entered.
C15_LevelChainInOrder ==
    /\ current_level # "Endless" /\ next_level # "Endless"
    /\ current_level = level_history[Len(level_history)]
    /\ \/ IsPrefix(level_history, LevelChain)
       \/ /\ gameplay_state # "Playing"
          /\ level_history[Len(level_history)] = "None"
          /\ IsPrefix(SubSeq(level_history, 1, Len(level_history) - 1), LevelChain)
    /\ \A i \in DOMAIN level_log :
         LET en == level_log[i] IN
         /\ en.level = "One" => en.next.next_level = "Two"
         /\ en.level = "Two" => en.next.next_level = "Three"
         /\ en.level = "Three" =>
               en.next = [next_level |-> "None", next_gameplaystate |-> "None",
                          next_gamestate |-> "GameWon"]
    /\ next_gamestate = "GameWon" =>
         \E i \in DOMAIN level_history : level_history[i] = "Three"

\* The session went through the three levels and was won
C15_WonAfterThree ==
    /\ level_history = << "None", "One", "Two", "Three", "None" >>
    /\ next_gamestate = "GameWon"
    /\ gameplay_state = "None"

\* C16: advance_level runs only in a frame in which no Boss entity exists
\* and the current-level tally of the player is at least 15; a transition of
\* the level is queued during a level of a session only under that
\* condition, whatever the total of the kills is.
C16_AdvanceOnlyWhenWon ==
    /\ \A i \in DOMAIN level_log :
         /\ ~level_log[i].boss
         /\ level_log[i].kills.current_level >= WinKills
    /\ gameplay_state = "Playing" /\ current_level \in {"One", "Two", "Three"}
         /\ next_level # Unset =>
            ~boss /\ kills.current_level >= WinKills
    /\ gameplay_state = "Playing" /\ (boss \/ kills.current_level < WinKills) =>
         next_level \in {Unset, "One"} /\ level_log = <<>>

\* The second level is left with 15 kills in it and more than 30 in total
C16_AdvanceFromTwo ==
    /\ level_log # <<>>
    /\ level_log[1].level = "Two"
    /\ level_log[1].kills.current_level = WinKills
    /\ level_log[1].kills.total > 2 * WinKills

\* The value a call asks the Power to hold
PowerAsked(c) ==
    CASE c.op = "add"      -> c.before.current + c.value
      [] c.op = "subtract" -> c.before.current - c.value
      [] OTHER             -> c.value

\* C17 as stated: after construction and any calls 0 <= current <= M; a
\* value that would exceed M is clamped to M, never wrapped, rejected or
\* reset; subtracting more than the current value gives 0.
C17_ClampedToMax ==
    /\ power_counter.current >= 0
    /\ power_counter.current <= power_counter.max
    /\ ~power_call.panicked
    /\ PowerAsked(power_call) > power_counter.max =>
          power_counter.current = power_counter.max
    /\ power_call.op = "subtract" /\ power_call.value > power_call.before.current =>
          power_counter.current = 0

\* What does hold of every call that returns: the value stays within 0 .. M,
\* and a subtraction of more than the current value gives 0
C17_WithinBounds ==
    /\ power_counter.current \in 0..power_counter.max
    /\ power_call.op = "subtract" /\ power_call.value > power_call.before.current =>
          power_counter.current = 0

\* The entities that have a category handler: bullets, the player, enemies
\* and collectables
Categorized(e) == IsBullet(e) \/ e = "player" \/ IsEnemy(e) \/ IsCollectable(e)

\* C18 as stated: every record ingested for a live entity with a category
\* handler is read by that handler once, in the frame it was ingested in,
\* before cleanup erases it: cleanup erases no more records of an entity
\* than its handler has read in the frame, and a handler reads no record
\* left in the table by an earlier frame.
C18_HandledBeforeErased ==
    /\ \A e \in Entities :
          Categorized(e) /\ alive[e] => log.erased[e] <= log.seen[e]
    /\ \A e \in Entities : log.seen[e] > 0 => log.carried[e] = 0

\* C19 as stated: the one enemy of the session is counted as killed at most
\* once and drops its loot (5 score and 3 power pickups) at most once, also
\* when two player bullets hit it in the same frame.
C19_KilledAndLootedOnce ==
    /\ enemies_killed.total <= 1
    /\ enemies_killed.current_level <= 1
    /\ loot.score <= DropScore
    /\ loot.power <= DropPower

\* C20 as stated: a record is erased by the end of the frame it was ingested
\* in: during a frame the table holds no record ingested in an earlier one.
C20_NoRecordFromEarlierFrame ==
    \A e \in Entities : log.carried[e] = 0

\* The records of e for the events evs, in the order the events arrived
RECURSIVE Arrivals(_, _)
Arrivals(e, evs) ==
    IF evs = <<>> THEN <<>>
    ELSE LET ev == Head(evs) IN
         (IF e \in {ev.e1, ev.e2} /\ HasCollider(ev.e1) /\ HasCollider(ev.e2)
          THEN << RecordOf(e, ev) >> ELSE <<>>) \o Arrivals(e, Tail(evs))

\* The step of a frame in which system s runs, and the step that ends a frame
RunOf(s) == s \in done' /\ s \notin done
FrameEnds == done = Systems /\ done' = {}

\* The record part of C21, which holds: one run of handle_collisions appends
\* to the list of every entity exactly its records of the events read, in
\* arrival order, and requests a CollisionMarker for exactly the entities that
\* received a record; an event with an entity without ColliderType adds nothing.
C21_RecordsInArrivalOrder ==
    [][RunOf("handle_collisions") =>
         /\ \A e \in Entities :
              collisions'[e] = collisions[e] \o Arrivals(e, collision_events)
         /\ LET new == SubSeq(commands'["handle_collisions"],
                              Len(commands["handle_collisions"]) + 1,
                              Len(commands'["handle_collisions"]))
            IN /\ \A i \in DOMAIN new : new[i].op = "insert_marker"
               /\ {new[i].entity : i \in DOMAIN new}
                     = {e \in Entities : Arrivals(e, collision_events) # <<>>}]_vars

\* C21: for every raw event between two entities with a ColliderType,
\* handle_collisions appends one record to the list of each, in arrival
\* order, and both entities are marked: each of them that is still there when
\* the frame ends carries the CollisionMarker, and marking does not fail. An
\* event with an entity without ColliderType adds no record and no marker.
C21_RecordedAndMarked ==
    [][/\ RunOf("handle_collisions") =>
            \A e \in Entities :
               collisions'[e] = collisions[e] \o Arrivals(e, collision_events)
       /\ FrameEnds =>
            \A i \in DOMAIN commands["handle_collisions"] :
               LET e == commands["handle_collisions"][i].entity IN
               /\ ~panicked'
               /\ alive'[e] => marker'[e]]_vars

\* C22 as stated: for a bullet, each begin-event against a Player or an
\* Enemy emits exactly one damage event against the other entity, tagged with
\* that entity's category, and exactly one non-cascading despawn event for
\* the bullet; an end-event against them, and a collision with a category
\* other than Player, Enemy and Wall, emits nothing.
C22_HitDespawnNotCascading ==
    \A i \in DOMAIN log.bullet :
        LET en == log.bullet[i]
            c == en.collision
        IN /\ c.started /\ c.other_type \in {"Player", "Enemy"} =>
                /\ Len(en.dmg) = 1
                /\ en.dmg[1].entity = c.other_entity
                /\ en.dmg[1].entity_type = c.other_type
                /\ en.desp = << [entity |-> en.bullet, recursive |-> FALSE,
                                 drop_score |-> 0, drop_power |-> 0] >>
           /\ ~c.started /\ c.other_type \in {"Player", "Enemy"} =>
                en.dmg = <<>> /\ en.desp = <<>>
           /\ c.other_type \notin {"Player", "Enemy", "Wall"} =>
                en.dmg = <<>> /\ en.desp = <<>>

\* C22 amended: for a bullet, each begin-event against a Player or an Enemy
\* emits exactly one damage event against the other entity, tagged with that
\* entity's category, and exactly one cascading (recursive) despawn event
\* without drops for the bullet; a player bullet does so only while the
\* player exists (its Power is read first) and emits nothing otherwise. An
\* end-event against them, and a collision with a category other than
\* Player, Enemy and Wall, emits nothing.
C22_HitDespawnCascading ==
    \A i \in DOMAIN log.bullet :
        LET en == log.bullet[i]
            c == en.collision
            skipped == ColliderType(en.bullet) = "PlayerBullet" /\ ~alive["player"]
        IN /\ c.started /\ c.other_type \in {"Player", "Enemy"} /\ ~skipped =>
                /\ Len(en.dmg) = 1
                /\ en.dmg[1].entity = c.other_entity
                /\ en.dmg[1].entity_type = c.other_type
                /\ en.desp = << [entity |-> en.bullet, recursive |-> TRUE,
                                 drop_score |-> 0, drop_power |-> 0] >>
           /\ c.started /\ skipped => en.dmg = <<>> /\ en.desp = <<>>
           /\ ~c.started /\ c.other_type \in {"Player", "Enemy"} =>
                en.dmg = <<>> /\ en.desp = <<>>
           /\ c.other_type \notin {"Player", "Enemy", "Wall"} =>
                en.dmg = <<>> /\ en.desp = <<>>

\* An enemy bullet that has begun to overlap the player has been handled
C22_EnemyBulletHitPlayer ==
    \E i \in DOMAIN log.bullet :
        /\ log.bullet[i].bullet = "ebullet"
        /\ log.bullet[i].collision.started
        /\ log.bullet[i].collision.other_type = "Player"
        /\ Len(log.bullet[i].dmg) = 1
        /\ Len(log.bullet[i].desp) = 1

\* The entities the queued despawn commands are about to remove
Doomed ==
    UNION { IF commands["despawn_entity"][i].op = "despawn_recursive"
            THEN {commands["despawn_entity"][i].entity}
                     \cup Children(commands["despawn_entity"][i].entity)
            ELSE {commands["despawn_entity"][i].entity}
          : i \in DOMAIN commands["despawn_entity"] }

\* C23: a despawn requested during a frame is only queued. No system of the
\* frame removes an entity: despawn_entity turns the requests it reads into
\* queued commands on entities that stay in the World, every entity is as
\* present for a system that runs later in the frame as for one that ran
\* earlier, and the entities leave the World only when the frame ends and the
\* queued commands are applied, which removes exactly the entities the
\* commands name (with their children for a recursive one).
C23_RemovedOnlyWhenFrameEnds ==
    [][/\ ~FrameEnds => alive' = alive
       /\ RunOf("despawn_entity") =>
            \A i \in DOMAIN commands'["despawn_entity"] :
               alive'[commands'["despawn_entity"][i].entity]
       /\ FrameEnds =>
            /\ \A e \in Entities : alive[e] /\ ~alive'[e] => e \in Doomed
            /\ ~panicked' => \A e \in Doomed : ~alive'[e]]_vars

\* A despawn is queued for an entity that is still in the World, and a
\* consumer of the frame has yet to run
C23_QueuedWhileOthersRun ==
    /\ commands["despawn_entity"] # <<>>
    /\ \A e \in Doomed : alive[e]
    /\ "take_damage" \notin done
    /\ "cleanup_collisions" \notin done

\* The target of a damage or despawn event is in the World
TargetExists(ev) == alive[ev.entity]

\* The drops requested by the despawn events whose target is in the World
RECURSIVE LiveDrops(_)
LiveDrops(evs) ==
    IF evs = <<>> THEN [score |-> 0, power |-> 0]
    ELSE LET rest == LiveDrops(Tail(evs)) IN
         IF TargetExists(Head(evs))
         THEN [score |-> rest.score + Head(evs).drop_score,
               power |-> rest.power + Head(evs).drop_power]
         ELSE rest

\* What take_damage, despawn_entity and create_collectables_on_despawn do
\* with an event whose target is missing: nothing, without failing, and the
\* other events of the run are served
SkippedByLifecycle ==
    /\ RunOf("take_damage") =>
         /\ ~panicked'
         /\ Len(log'.damage) = Len(damage_ev["take_damage"])
         /\ damage_ev'["take_damage"] = <<>>
         /\ \A i \in DOMAIN log'.damage :
              LET en == log'.damage[i] IN
              ~(alive[en.event.entity] /\ en.hp_before # NoHealth) =>
                 /\ en.hp_after = en.hp_before
                 /\ en.desp = <<>>
                 /\ en.game_over = 0
                 /\ en.killed_after = en.killed_before
    /\ RunOf("despawn_entity") =>
         LET new == SubSeq(commands'["despawn_entity"],
                           Len(commands["despawn_entity"]) + 1,
                           Len(commands'["despawn_entity"]))
             live == SelectSeq(despawn_ev["despawn_entity"], TargetExists)
         IN /\ ~panicked'
            /\ despawn_ev'["despawn_entity"] = <<>>
            /\ Len(new) = Len(live)
            /\ \A i \in DOMAIN new : new[i].entity = live[i].entity
    /\ RunOf("create_collectables_on_despawn") =>
         LET drops == LiveDrops(despawn_ev["create_collectables_on_despawn"]) IN
         /\ ~panicked'
         /\ despawn_ev'["create_collectables_on_despawn"] = <<>>
         /\ loot'.score = loot.score + drops.score
         /\ loot'.power = loot.power + drops.power

\* The lifecycle part of C24, which holds
C24_SkippedByLifecycle == [][SkippedByLifecycle]_vars

\* C24: a TakeDamageEvent or DespawnEvent whose target no longer exists (or,
\* for damage, has no Health) is skipped silently: no health, counter
\* (the score included), game-over, loot or despawn effect and no failure,
\* and the remaining events of the frame are still processed.
C24_MissingTargetSkipped ==
    [][/\ SkippedByLifecycle
       /\ RunOf("score_on_enemy_damage") =>
            \A i \in DOMAIN log'.score :
               ~TargetExists(log'.score[i].event) =>
                  log'.score[i].after = log'.score[i].before]_vars

\* The records of a body contact read by the two handlers in this frame
PlayerContacts(st) ==
    {i \in DOMAIN log.player :
        log.player[i].collision.other_type = "Enemy" /\ log.player[i].collision.started = st}
EnemyContacts(st) ==
    {i \in DOMAIN log.enemy :
        log.enemy[i].collision.other_type = "Player" /\ log.enemy[i].collision.started = st}

\* The per-record part of C25, which holds: a begin record against an Enemy
\* makes the player handler emit one 10-damage event against the player with
\* category Player, a begin record against the Player makes the enemy handler
\* emit one 15-damage event against the enemy without category, and an end
\* record makes neither emit a damage event.
ContactDamagePerRecord ==
    /\ \A i \in PlayerContacts(TRUE) :
         log.player[i].dmg = << TakeDamageEvent("player", "Player", 1000) >>
    /\ \A i \in PlayerContacts(FALSE) : log.player[i].dmg = <<>>
    /\ \A i \in EnemyContacts(TRUE) :
         log.enemy[i].dmg = << TakeDamageEvent(log.enemy[i].enemy, NoType, 1500) >>
    /\ \A i \in EnemyContacts(FALSE) : log.enemy[i].dmg = <<>>

C25_ContactDamagePerRecord == ContactDamagePerRecord

\* C25: for one begin-event between the player and an enemy the player
\* handler emits a 10-damage event against the player and the enemy handler
\* a 15-damage event against the enemy in the same frame: once both handlers
\* have run, each has served as many body contacts as the other. An
\* end-event between them emits neither.
C25_BothDamagedInSameFrame ==
    /\ ContactDamagePerRecord
    /\ {"handle_player_col", "handle_enemy_col"} \subseteq done =>
          Cardinality(PlayerContacts(TRUE)) = Cardinality(EnemyContacts(TRUE))

\* A lethal damage event without category on an enemy: the body contact
ContactKill(en) == Lethal(en) /\ en.event.entity_type = NoType /\ IsEnemy(en.event.entity)

\* C26: an enemy killed by the enemy handler's 15-damage event, which has no
\* category, gets the despawn request with 5 score and 3 power drops, but
\* neither kill tally of the player changes, no game over is raised and the
\* score observer adds nothing for the event.
C26_ContactKillNotCounted ==
    /\ \A i \in DOMAIN log.enemy :
         \A j \in DOMAIN log.enemy[i].dmg : log.enemy[i].dmg[j].entity_type = NoType
    /\ \A i \in DOMAIN log.damage :
         LET en == log.damage[i] IN
         ContactKill(en) =>
            /\ en.desp[Len(en.desp)] = [entity |-> en.event.entity, recursive |-> FALSE,
                                        drop_score |-> 5, drop_power |-> 3]
            /\ en.killed_after = en.killed_before
            /\ en.game_over = 0
    /\ \A i \in DOMAIN log.score :
         log.score[i].event.entity_type = NoType =>
            log.score[i].after = log.score[i].before

\* An enemy has died of the contact, its despawn with drops is requested,
\* and the tallies and the score are what they were
C26_EnemyDiedOfContact ==
    /\ {"take_damage", "score_on_enemy_damage"} \subseteq done
    /\ \E i \in DOMAIN log.damage :
          /\ ContactKill(log.damage[i])
          /\ log.damage[i].event.damage = 1500
          /\ log.damage[i].desp # <<>>
    /\ \E i \in DOMAIN log.score : log.score[i].event.entity_type = NoType
    /\ enemies_killed = [total |-> 0, current_level |-> 0]
    /\ score.pre_multiplier_score = 0

\* C27: the enemy handler requests a despawn of an enemy exactly for each of
\* its records that is an end-event against a Wall with the SENSOR flag: the
\* request is not recursive and carries no drops, and the run changes neither
\* the kill tallies nor the loot. A Wall end-event without the flag and a
\* Wall begin-event request nothing.
C27_DespawnOnLeavingWall ==
    [][RunOf("handle_enemy_col") =>
         /\ \A i \in DOMAIN log'.enemy :
              LET en == log'.enemy[i]
                  c == en.collision
              IN en.desp = IF c.other_type = "Wall" /\ ~c.started /\ c.sensor
                           THEN << [entity |-> en.enemy, recursive |-> FALSE,
                                    drop_score |-> 0, drop_power |-> 0] >>
                           ELSE <<>>
         /\ enemies_killed' = enemies_killed
         /\ loot' = loot]_vars

\* The handler has read the record of an enemy that left a Wall and has
\* requested its despawn
C27_EnemyLeftWall ==
    \E i \in DOMAIN log.enemy :
        /\ log.enemy[i].collision.other_type = "Wall"
        /\ ~log.enemy[i].collision.started
        /\ log.enemy[i].collision.sensor
        /\ Len(log.enemy[i].desp) = 1

\* C28: for a collectable only begin records have an effect. A begin record
\* against the Player applies Score::add(50) if the pickup is a Score pickup
\* and Power::add(1) if it is a Power pickup (while the player exists), and
\* requests exactly one despawn of the pickup, not recursive and without
\* drops; it changes nothing else. An end record, and a record against a
\* category other than Player and Wall, changes nothing and requests nothing.
C28_PickupOnBeginOnly ==
    \A i \in DOMAIN log.collectable :
        LET en == log.collectable[i]
            c == en.collision
            untouched == /\ en.score_after = en.score_before
                         /\ en.power_after = en.power_before
                         /\ en.vel_after = en.vel_before
                         /\ en.desp = <<>>
        IN /\ ~c.started => untouched
           /\ c.other_type \notin {"Player", "Wall"} => untouched
           /\ c.started /\ c.other_type = "Player" =>
                /\ en.desp = << [entity |-> en.entity, recursive |-> FALSE,
                                 drop_score |-> 0, drop_power |-> 0] >>
                /\ en.vel_after = en.vel_before
                /\ alive["player"] /\ CollectableKind(en.entity) = "Score" =>
                     /\ en.score_after = ScoreAdd(en.score_before, 50)
                     /\ en.score_after.pre_multiplier_score
                           = en.score_before.pre_multiplier_score + 50
                     /\ en.power_after = en.power_before
                /\ alive["player"] /\ CollectableKind(en.entity) = "Power" =>
                     /\ en.power_after = IF en.power_before + 1 >= PowerMax
                                         THEN PowerMax ELSE en.power_before + 1
                     /\ en.score_after = en.score_before
                /\ ~alive["player"] =>
                     en.score_after = en.score_before /\ en.power_after = en.power_before

\* The player has taken a Score pickup: 50 more before the multiplier, and
\* the despawn of the pickup is requested
C28_ScorePickupTaken ==
    \E i \in DOMAIN log.collectable :
        /\ log.collectable[i].entity = "spickup"
        /\ log.collectable[i].collision.started
        /\ log.collectable[i].collision.other_type = "Player"
        /\ log.collectable[i].score_after.pre_multiplier_score = 50
        /\ log.collectable[i].score_after.score = 75
        /\ Len(log.collectable[i].desp) = 1

\* C29: on a run of enemy_attack that finds the cursor of the current
\* pattern at or above the number of bullets of its group (the game state
\* not having changed) no bullet is spawned; if the outer cooldown, ticked
\* by this run, has not finished, the cursor stays where it is and the
\* cooldown keeps its progress; on the run where it has finished the cursor
\* becomes 0 and the cooldown is restarted. A run that finds the cursor
\* below the number of bullets is not a waiting run, and it spawns whenever
\* the timer that paces the pattern has finished.
WaitsBetweenVolleys ==
    LET n == attacks.current_attack + 1
        p == attacks.attacks[n]
        q == attacks'.attacks[n]
        lg == attack_log'
    IN /\ lg.pattern = n
       /\ ~lg.state_changed /\ p.current_bullet >= p.number =>
            /\ lg.idle /\ lg.spawned = <<>>
            /\ ~lg.cd_finished =>
                 /\ q.current_bullet = p.current_bullet
                 /\ ~q.cd.finished /\ q.cd.elapsed > p.cd.elapsed
                 /\ q.cd.elapsed < q.cd.duration
            /\ lg.cd_finished =>
                 /\ q.current_bullet = 0
                 /\ q.cd = [p.cd EXCEPT !.elapsed = 0, !.finished = FALSE]
            /\ q.icd = p.icd
       /\ ~lg.state_changed /\ p.current_bullet < p.number =>
            /\ ~lg.idle
            /\ (IF q.icd = NoTimer THEN lg.cd_finished
                ELSE q.icd.elapsed = 0 /\ q.current_bullet = p.current_bullet + 1)
                  <=> lg.spawned # <<>>

C29_WaitsBetweenVolleys == [][WaitsBetweenVolleys]_vars

\* A pattern that waited with its cursor at 5 has been started over by the
\* run on which its cooldown finished
C29_VolleyStartedOver ==
    /\ attack_log.idle /\ attack_log.cd_finished /\ ~attack_log.state_changed
    /\ attacks.attacks[attack_log.pattern].number = 5
    /\ attacks.attacks[attack_log.pattern].current_bullet = 0
    /\ attacks.attacks[attack_log.pattern].cd.elapsed = 0
    /\ Len(history[attack_log.pattern].volley) = 0

\* What a run does to the switch timer and the attack index when it ticks
\* the timer by the time of the frame: on completion the next index,
\* circularly, and the timer restarted
SwitchTicked ==
    LET number == Len(attacks.attacks)
        due == attacks.switch_timer.elapsed + attack_log'.delta
                  >= attacks.switch_timer.duration
    IN IF due
       THEN /\ attacks'.current_attack = (attacks.current_attack + 1) % number
            /\ attacks'.switch_timer
                  = [attacks.switch_timer EXCEPT !.elapsed = 0, !.finished = FALSE]
       ELSE /\ attacks'.current_attack = attacks.current_attack
            /\ attacks'.switch_timer
                  = [attacks.switch_timer EXCEPT !.elapsed = @ + attack_log'.delta]

\* C30 as stated: on every run of enemy_attack (the game state not having
\* changed) the switch timer advances by the time of the frame, whatever the
\* cursor and the cooldowns of the current pattern, a pattern waiting between
\* two volleys included; on the run where it completes the attack index
\* becomes (index + 1) mod (number of patterns) and the timer restarts.
C30_SwitchTimerAdvancesEveryRun ==
    [][~attack_log'.state_changed => SwitchTicked]_vars

\* What holds instead: the timer advances, and the index cycles, on the runs
\* that find the cursor of the current pattern below the number of bullets;
\* a waiting run leaves the timer and the index as they are.
C30_SwitchTimerFrozenWhileWaiting ==
    [][~attack_log'.state_changed =>
          IF attack_log'.idle
          THEN /\ attacks'.switch_timer = attacks.switch_timer
               /\ attacks'.current_attack = attacks.current_attack
          ELSE SwitchTicked]_vars

\* A waiting run has left a switch timer that was under way where it was
C30_WaitedWithTimerUnderWay ==
    /\ attack_log.idle /\ ~attack_log.state_changed /\ attack_log.delta > 0
    /\ attacks.switch_timer.elapsed > 0
    /\ attacks.switch_timer.elapsed + attack_log.delta < attacks.switch_timer.duration

\* The pattern the run was bound to, after a run on which the game state has
\* changed: reset, then ticked by the time of the frame, one bullet spawned
\* at most
ResetThenTicked(q, lg) ==
    /\ q.cd.elapsed <= lg.delta
    /\ q.icd # NoTimer => q.icd.elapsed <= lg.delta
    /\ q.current_bullet = (IF q.icd # NoTimer /\ lg.spawned # <<>> THEN 1 ELSE 0)

\* The switch timer and the attack index after such a run
SwitchReset(lg) ==
    /\ attacks'.current_attack = 0
    /\ attacks'.switch_timer.elapsed \in {0, lg.delta}
    /\ ~attacks'.switch_timer.finished

C31_OnlyCurrentPatternReset ==
    [][attack_log'.state_changed =>
          /\ SwitchReset(attack_log')
          /\ attack_log'.pattern = attacks.current_attack + 1
          /\ \A q \in DOMAIN attacks.attacks :
                IF q = attack_log'.pattern
                THEN ResetThenTicked(attacks'.attacks[q], attack_log')
                ELSE attacks'.attacks[q] = attacks.attacks[q]]_vars

\* The game state has changed while the second attack was current: the
\* first attack still has the progress of its cooldown
C31_StaleCooldownKept ==
    /\ attack_log.state_changed /\ attack_log.pattern = 2
    /\ attacks.current_attack = 0
    /\ attacks.attacks[1].cd.elapsed > 0

\* C32: in every reachable state of an enemy with at least one attack the
\* attack index is below the number of attacks and the cursor of every
\* attack is at most the number of bullets of its group.
C32_IndexAndCursorInRange ==
    /\ Len(attacks.attacks) > 0
    /\ attacks.current_attack \in 0..(Len(attacks.attacks) - 1)
    /\ \A q \in DOMAIN attacks.attacks :
          attacks.attacks[q].current_bullet \in 0..attacks.attacks[q].number

\* The second of two attacks is current, after a switch from a first attack
\* that had fired, and has spawned its whole group: index and cursor are at
\* the upper end of their ranges
C32_LastIndexCursorAtNumber ==
    /\ Len(attacks.attacks) = 2
    /\ attacks.current_attack = 1
    /\ attacks.attacks[2].current_bullet = attacks.attacks[2].number
    /\ history[1].since_fire # NeverFired

\* C33: the health of an entity is strictly positive for as long as it has
\* one, and no step raises it; take_damage lowers it by exactly the damage
\* of a hit that is below it, and leaves it as it is on a lethal hit (the
\* despawn of the entity is requested instead).
HealthKept ==
    /\ \A e \in Entities :
          /\ health[e] # NoHealth => health[e] > 0
          /\ health'[e] # NoHealth =>
                health'[e] > 0 /\ health[e] # NoHealth /\ health'[e] <= health[e]
    /\ RunOf("take_damage") =>
          \A i \in DOMAIN log'.damage :
              LET en == log'.damage[i] IN
              en.found =>
                 /\ en.hp_before > 0 /\ en.hp_after > 0
                 /\ en.hp_before > en.event.damage =>
                       en.hp_after = en.hp_before - en.event.damage /\ en.desp = <<>>
                 /\ en.hp_before <= en.event.damage =>
                       /\ en.hp_after = en.hp_before
                       /\ en.desp # <<>>
                       /\ en.desp[Len(en.desp)].entity = en.event.entity
    /\ ~RunOf("take_damage") /\ ~FrameEnds => health' = health

C33_HealthPositiveNeverRaised == [][HealthKept]_vars

\* One run of take_damage has handled a hit the target survived and a
\* lethal hit, and the entity hit lethally still has its health
C33_SurvivedAndLethalHit ==
    \E i, j \in DOMAIN log.damage :
        /\ NonLethal(log.damage[i]) /\ log.damage[i].event.damage > 0
        /\ log.damage[i].hp_after = log.damage[i].hp_before - log.damage[i].event.damage
        /\ Lethal(log.damage[j])
        /\ health[log.damage[j].event.entity] = log.damage[j].hp_before
        /\ health[log.damage[j].event.entity] > 0

\* C34: spawn_player_bullet spawns only on a run on which the fire key is
\* held and the 200 ms cooldown, ticked by the run, has finished; it then
\* spawns exactly three bullets and resets the cooldown, so that at least
\* 200 ms have been ticked since the volley before; a run on which the key
\* is not held, or the cooldown unfinished, spawns nothing and leaves the
\* cooldown ticked.
C34_VolleyPerCooldown ==
    /\ fire_log.spawned # <<>> =>
          /\ fire_log.pressed /\ fire_log.finished
          /\ Len(fire_log.spawned) = 3
          /\ player_cd = [elapsed |-> 0, duration |-> 200, finished |-> FALSE]
          /\ fire_log.gap = NeverFired \/ fire_log.gap >= 200
          /\ fire_since = 0
    /\ ~fire_log.pressed \/ ~fire_log.finished => fire_log.spawned = <<>>
    /\ fire_log.spawned = <<>> /\ fire_log.finished => player_cd.finished
    /\ fire_log.pressed /\ fire_log.finished /\ fire_log.player => fire_log.spawned # <<>>
    /\ player_cd.duration = 200 /\ player_cd.elapsed \in 0..200
    /\ player_cd.finished <=> player_cd.elapsed = 200

\* A second volley, 200 ms after the first, the key held
C34_SecondVolleyAtCooldown ==
    /\ Len(fire_log.spawned) = 3
    /\ fire_log.gap = 200
    /\ fire_log.pressed

\* C35: the state transition that enters level One, Two or Three spawns the
\* boss of the level (it is there when the transition ends unless the same
\* transition leaves the Playing state, which despawns the enemies) and sets
\* the current-level tally of EnemiesKilled to 0 without changing the total;
\* in every step the total does not decrease and the tally is at most the
\* total.
LevelEntered ==
    /\ current_level' # current_level
    /\ current_level' \in {"One", "Two", "Three"}

C35_BossAndTallyOnEntering ==
    [][/\ LevelEntered =>
            /\ kills'.current_level = 0
            /\ kills'.total = kills.total
            /\ gameplay_state' = "Playing" => boss'
       /\ kills.current_level <= kills.total
       /\ kills'.current_level <= kills'.total
       /\ kills'.total >= kills.total]_vars

\* Level Two has been entered after the 15 kills of level One: the boss is
\* there, the tally is 0 and the total is kept
C35_EnteredSecondLevel ==
    /\ current_level = "Two" /\ level_history = << "None", "One", "Two" >>
    /\ boss
    /\ kills.current_level = 0
    /\ kills.total >= WinKills

\* The state transition leaves level One, Two or Three
LevelExited ==
    /\ current_level' # current_level
    /\ current_level \in {"One", "Two", "Three"}

\* The pickups the transition has spawned for the bullet in slot b, which
\* may be up to 20 away from it in each coordinate
PickupsAround(b) ==
    { i \in DOMAIN converted' :
        /\ converted'[i].pos.x - BulletPosition(b).x \in -20..20
        /\ converted'[i].pos.y - BulletPosition(b).y \in -20..20 }

\* C36 as stated: a transition that leaves level One, Two or Three despawns
\* every enemy bullet and spawns exactly one Score pickup, and no Power
\* pickup, at the position of each; it leaves the player bullets as they are
\* (while the Playing state is not left); no enemy bullet exists when the
\* next level has started.
C36_EveryLevelConvertsAtPosition ==
    [][LevelExited =>
          /\ \A b \in Slots :
                /\ bullets[b] = "EnemyBullet" =>
                      /\ bullets'[b] = NoBullet
                      /\ Cardinality({ i \in DOMAIN converted' :
                                         converted'[i].pos = BulletPosition(b) }) = 1
                /\ bullets[b] = "PlayerBullet" /\ gameplay_state' = "Playing" =>
                      bullets'[b] = "PlayerBullet"
          /\ \A i \in DOMAIN converted' : converted'[i].kind = "Score"
          /\ Len(converted') = Cardinality({b \in Slots : bullets[b] = "EnemyBullet"})
          /\ current_level' \in {"One", "Two", "Three"} =>
                \A b \in Slots : bullets'[b] # "EnemyBullet"]_vars

\* C36 amended: a transition that leaves level One or Two while enemy
\* bullets are alive despawns each of them and spawns exactly one Score
\* pickup, and no Power pickup, within 20 of its position in each
\* coordinate; leaving level Three spawns no pickup, and the bullets are
\* despawned with the Playing state; player bullets are left as they are
\* while the Playing state is not left; no enemy bullet exists when the next
\* level has started.
C36_FirstTwoLevelsConvertNearby ==
    [][/\ LevelExited =>
            /\ \A b \in Slots :
                  /\ bullets[b] = "EnemyBullet" => bullets'[b] = NoBullet
                  /\ bullets[b] = "PlayerBullet" /\ gameplay_state' = "Playing" =>
                        bullets'[b] = "PlayerBullet"
                  /\ bullets[b] = "EnemyBullet" /\ current_level # "Three"
                        /\ gameplay_state' = "Playing" =>
                        Cardinality(PickupsAround(b)) = 1
                  /\ bullets[b] # "EnemyBullet" => PickupsAround(b) = {}
            /\ \A i \in DOMAIN converted' : converted'[i].kind = "Score"
            /\ current_level = "Three" =>
                  /\ converted' = <<>>
                  /\ gameplay_state' # "Playing"
                  /\ \A b \in Slots : bullets'[b] = NoBullet
            /\ current_level' \in {"One", "Two", "Three"} =>
                  \A b \in Slots : bullets'[b] # "EnemyBullet"
       /\ ~LevelExited => converted' = <<>> \/ converted' = converted]_vars

\* Level Two has been entered with an enemy bullet converted into one Score
\* pickup away from the bullet's position, and a player bullet still there
C36_LeftoverConverted ==
    /\ current_level = "Two" /\ gameplay_state = "Playing"
    /\ Len(converted) = 1
    /\ converted[1].kind = "Score"
    /\ converted[1].pos = [x |-> 80, y |-> 70]
    /\ bullets = << NoBullet, "PlayerBullet" >>

\* C37: a run of game_over that finds one or more GameOverEvents pending
\* requests GameplayState::None and GameState::GameOver, once, whatever the
\* number of events (it consumes one of them and handles no other); a run
\* that finds none pending requests nothing.
GameOverRequestsOnce ==
    "game_over" \in frame'.ran /\ "game_over" \notin frame.ran =>
       IF session.pending > 0
       THEN /\ frame'.writes = Append(frame.writes,
                                      [system |-> "game_over", game |-> "GameOver",
                                       gameplay |-> "None"])
            /\ requested' = [requested EXCEPT !.next_gameplaystate = "None",
                                              !.next_gamestate = "GameOver"]
            /\ session'.pending = session.pending - 1
       ELSE /\ frame'.writes = frame.writes
            /\ requested' = requested
            /\ session' = session

C37_GameOverRequestsOnce == [][GameOverRequestsOnce]_vars

\* game_over has run with two GameOverEvents pending: one request, one event
\* left unread
C37_TwoEventsOneRequest ==
    /\ "game_over" \in frame.ran /\ "take_damage" \in frame.ran
    /\ frame.lethal = 2 /\ session.pending = 1
    /\ Cardinality({i \in DOMAIN frame.writes : frame.writes[i].system = "game_over"}) = 1
    /\ requested.next_gamestate = "GameOver"
    /\ requested.next_gameplaystate = "None"

\* C38 as stated: the GameState requested when a frame ends does not depend
\* on the order in which game_over, advance_level and back_to_menu have run.
\* The schedule orders none of the three with another and each of them
\* overwrites NextState<GameState>, so the request that stands is the last
\* one written: it is independent of the order exactly if every request
\* written in the frame is the one that stands at its end.
C38_SameOutcomeInEveryOrder ==
    frame.ran = OverSystems =>
       \A i \in DOMAIN frame.writes :
           frame.writes[i].game = requested.next_gamestate

\* The same frame (a lethal hit on the player and the kill that completes
\* level Three, Escape not pressed) ends with GameOver requested in one
\* order and with GameWon requested in another
C38_LostAndWonEndsLost ==
    /\ frame.ran = OverSystems /\ session.level = "Three" /\ ~frame.escape
    /\ frame.lethal = 1 /\ frame.last_kill /\ session.frames = 0
    /\ Len(frame.writes) = 2
    /\ {frame.writes[i].system : i \in DOMAIN frame.writes}
          = {"game_over", "advance_level"}
    /\ requested.next_gamestate = "GameOver"

C38_LostAndWonEndsWon ==
    /\ frame.ran = OverSystems /\ session.level = "Three" /\ ~frame.escape
    /\ frame.lethal = 1 /\ frame.last_kill /\ session.frames = 0
    /\ Len(frame.writes) = 2
    /\ {frame.writes[i].system : i \in DOMAIN frame.writes}
          = {"game_over", "advance_level"}
    /\ requested.next_gamestate = "GameWon"

\* C39: a run of manage_lifetimes requests the despawn of a pickup, not
\* recursive, exactly on the first run on which the pickup has been ticked
\* for 15 seconds or more; it toggles the flash state at most once, only on
\* a run on which less than half of the lifetime remains and a flash period
\* of 0.5 seconds has been completed, and changes it on no other run. A
\* pickup that is gone without having been taken has been ticked for 15
\* seconds or more.
LifetimeManaged ==
    life_log'.ran =>
       LET lg == life_log'
           before == collectable.age
           after == collectable'.age
       IN /\ before < LifetimeMs /\ after = before + lg.delta
          /\ lg.commands # <<>> <=> after >= LifetimeMs
          /\ lg.commands # <<>> =>
                lg.commands = << [despawn |-> "collectable", recursive |-> FALSE] >>
          /\ lg.toggled =>
                /\ 2 * (LifetimeMs - after) < LifetimeMs
                /\ after \div FlashMs > before \div FlashMs
                /\ collectable'.lifetime.flash = ~collectable.lifetime.flash
                /\ collectable'.toggles = collectable.toggles + 1
          /\ ~lg.toggled =>
                /\ collectable'.lifetime.flash = collectable.lifetime.flash
                /\ collectable'.toggles = collectable.toggles
          /\ collectable'.toggles > 0 =>
                collectable'.toggles
                   <= (after \div FlashMs) - (LifetimeMs \div (2 * FlashMs)) + 1

C39_DespawnedWhenLifetimeOver ==
    [][/\ LifetimeManaged
       /\ ~collectable'.exists /\ ~collectable'.taken => collectable'.age >= LifetimeMs
       /\ ~life_log'.ran => collectable'.lifetime = collectable.lifetime]_vars

\* A pickup nobody took is gone after 15 seconds and a little more, having
\* flashed in the second half of its lifetime
C39_ExpiredAfterFlashing ==
    /\ ~collectable.exists /\ ~collectable.taken
    /\ collectable.age > LifetimeMs
    /\ collectable.toggles >= 10
    /\ collectable.lifetime.flash

\* ------------------------------------------------------------------------
\* C40  A run of move_object::<T> changes, for each entity with T: the world
\* velocity to velocity + acceleration * dt, whatever `local` is; the local
\* velocity to v_local + a_local * dt if `local` is set and not at all
\* otherwise; the rapier linear velocity to 20 times the sum of the new
\* world velocity and, if `local` is set, the new local velocity rotated by
\* the rotation of the Transform. It changes nothing else of that entity
\* (not its Transform, accelerations or `local`) and nothing of any entity
\* without T.
\* ------------------------------------------------------------------------
ObjectMoved(o, n, dt) ==
    LET m == o.movement
        w == n.movement
        lx == m.v_local[1] + m.a_local[1] * dt
        ly == m.v_local[2] + m.a_local[2] * dt
    IN /\ n.kind = o.kind /\ n.transform = o.transform
       /\ w.acceleration = m.acceleration /\ w.a_local = m.a_local
       /\ w.local = m.local /\ w.first_run = m.first_run
       /\ w.velocity[1] = m.velocity[1] + m.acceleration[1] * dt
       /\ w.velocity[2] = m.velocity[2] + m.acceleration[2] * dt
       /\ m.local =>
             /\ w.v_local = <<lx, ly>>
             /\ n.linvel = VecMul(VecAdd(w.velocity,
                                         Rotate(o.transform.rotation, <<lx, ly>>)), 20)
       /\ ~m.local =>
             /\ w.v_local = m.v_local
             /\ n.linvel = <<20 * w.velocity[1], 20 * w.velocity[2]>>

MovedOnly(T) ==
    \A e \in Movers :
        IF objects[e].kind = T
        THEN ObjectMoved(objects[e], objects'[e], move_frame.dt)
        ELSE objects'[e] = objects[e]

C40_MoveObjectIntegrates ==
    [][/\ \A T \in MoveKinds :
            T \notin move_frame.done /\ T \in move_frame'.done => MovedOnly(T)
       /\ move_frame'.done = {} => objects' = objects]_vars

\* A bullet moving in its own frame and turned by a quarter has been moved in
\* a second frame: its forward speed shows along the x axis of the world
C40_TurnedBulletMoved ==
    /\ move_log.ran = "Bullet" /\ move_frame.frames = 1
    /\ objects["bullet"].movement.local
    /\ objects["bullet"].transform.rotation = 1
    /\ objects["bullet"].movement.v_local[2] > 3000
    /\ objects["bullet"].linvel[1] = -20 * objects["bullet"].movement.v_local[2]
    /\ objects["bullet"].linvel[2] = 0

====
